---- MODULE Spec2Model ----
(***************************************************************************)
(* Model of vue-html-renderer: the direct renderer (script extraction,     *)
(* materialisation and the three-phase scheduler), the shadow renderer     *)
(* (font-face extraction) and the useHtmlRenderer composable's lifecycle.  *)
(*                                                                         *)
(* Strings whose content the code inspects (marker payloads, ids,          *)
(* attribute values) are sequences of one-character strings, so that       *)
(* includes(), trim() and toLowerCase() are computed, not assumed.         *)
(* A DOM subtree is the sequence of its nodes in document (tree) order.    *)
(***************************************************************************)
EXTENDS Integers, Sequences, FiniteSets, TLC

(***************************************************************************)
(* Bounds                                                                  *)
(***************************************************************************)
\* longest markup, in nodes
MaxNodes == 3

\* calls of clear() in a row that are told apart
MaxClearRun == 2

\* renderIntoShadowRoot calls in one run of the font-face specification
MaxRenders == 2

\* nodes under the root insertScriptAtPlaceholder is called on directly
MaxRootNodes == 2

\* direct calls of insertScriptAtPlaceholder in one run
MaxInsertCalls == 3

\* calls of extractScriptsWithPlaceholders made on one container
MaxExtractCalls == 2

\* characters of a style element's text in the scan specification
MaxCssLen == 6

(***************************************************************************)
(* Strings                                                                 *)
(***************************************************************************)
SpaceChars == {" ", "\n", "\t"}

RECURSIVE TrimLeft(_)
TrimLeft(s) ==
  IF s # <<>> /\ Head(s) \in SpaceChars THEN TrimLeft(Tail(s)) ELSE s

RECURSIVE TrimRight(_)
TrimRight(s) ==
  IF s # <<>> /\ s[Len(s)] \in SpaceChars
    THEN TrimRight(SubSeq(s, 1, Len(s) - 1))
    ELSE s

\* String.prototype.trim
Trim(s) == TrimRight(TrimLeft(s))

LowerChar(c) ==
  CASE c = "M" -> "m"
    [] c = "O" -> "o"
    [] c = "D" -> "d"
    [] c = "U" -> "u"
    [] c = "L" -> "l"
    [] c = "E" -> "e"
    [] OTHER -> c

\* String.prototype.toLowerCase
ToLowerCase(s) == [i \in 1..Len(s) |-> LowerChar(s[i])]

\* String.prototype.includes: t occurs in s as a contiguous substring
Includes(s, t) ==
  \E i \in 1..(Len(s) - Len(t) + 1) : SubSeq(s, i, i + Len(t) - 1) = t

\* String.prototype.indexOf(t, from) on 1-based positions; 0 when absent
IndexOf(s, t, from) ==
  LET hits == {i \in from..(Len(s) - Len(t) + 1) : SubSeq(s, i, i + Len(t) - 1) = t}
  IN IF hits = {} THEN 0 ELSE CHOOSE i \in hits : \A j \in hits : i <= j

(***************************************************************************)
(* utils: uid, normalizeAttr, findPlaceholderNode                          *)
(***************************************************************************)
DigitChar(n) ==
  CASE n = 0 -> "0" [] n = 1 -> "1" [] n = 2 -> "2" [] n = 3 -> "3"
    [] n = 4 -> "4" [] n = 5 -> "5" [] n = 6 -> "6" [] n = 7 -> "7"
    [] n = 8 -> "8" [] OTHER -> "9"

\* uid(): "uid-<timestamp>-<random>"; the n-th id of the process, all of one
\* length, so that no id is a substring of another
uid(n) == <<"u", "i", "d", "-", DigitChar(n \div 10), DigitChar(n % 10)>>

normalizeAttr(val) == IF val = <<>> THEN <<>> ELSE Trim(val)

\* the token the extractor writes in front of the id
MarkerPrefix ==
  <<"D", "Y", "N", "A", "M", "I", "C", "_", "H", "T", "M", "L", "_",
    "S", "C", "R", "I", "P", "T", ":">>

\* the token findPlaceholderNode looks for in front of the id
LookupPrefix ==
  <<"S", "C", "R", "I", "P", "T", "_", "P", "L", "A", "C", "E", "H", "O",
    "L", "D", "E", "R", ":">>

\* findPlaceholderNode(root, id): position in root (document order) of the
\* first comment whose nodeValue includes the lookup token followed by id;
\* 0 stands for null
findPlaceholderNode(root, id) ==
  LET hits == {i \in 1..Len(root) :
                 /\ root[i].kind = "comment"
                 /\ Includes(root[i].text, LookupPrefix \o id)}
  IN IF hits = {} THEN 0 ELSE CHOOSE i \in hits : \A j \in hits : i <= j

(***************************************************************************)
(* DOM nodes.  attrs is a set of <<name, value>> pairs with distinct       *)
(* names; executable is FALSE for a script element the parser made         *)
(* (innerHTML, DOMParser, importNode of such) and TRUE for one made by     *)
(* document.createElement('script'), which runs when inserted.             *)
(***************************************************************************)
HasAttr(attrs, n) == \E p \in attrs : p[1] = n

GetAttr(attrs, n) == (CHOOSE p \in attrs : p[1] = n)[2]

\* attrs[n] || ''
AttrOrEmpty(attrs, n) == IF HasAttr(attrs, n) THEN GetAttr(attrs, n) ELSE <<>>

Comment(payload) ==
  [kind |-> "comment", attrs |-> {}, text |-> payload, executable |-> FALSE]

ParsedScript(attrs, text) ==
  [kind |-> "script", attrs |-> attrs, text |-> text, executable |-> FALSE]

Element(name) ==
  [kind |-> "elem", attrs |-> {}, text |-> name, executable |-> FALSE]

StyleElement(css) ==
  [kind |-> "style", attrs |-> {}, text |-> css, executable |-> FALSE]

SpecialAttrs == {"async", "defer", "type", "src"}

\* HTMLScriptElement.src of a parsed element is truthy: the attribute is
\* present and resolves to a URL.  An empty or all-whitespace value resolves
\* to the document's URL or to '' depending on the platform (emptySrc).
SrcProperty(el, emptySrc) ==
  /\ HasAttr(el.attrs, "src")
  /\ (Trim(GetAttr(el.attrs, "src")) # <<>> \/ emptySrc)

(***************************************************************************)
(* directRenderer: extractScriptsWithPlaceholders                          *)
(***************************************************************************)
ModuleType == <<"m", "o", "d", "u", "l", "e">>

NoCode == [isNull |-> TRUE, text |-> <<>>]

InlineCode(t) == [isNull |-> FALSE, text |-> t]

\* the IScriptMeta built for one script element, with the id drawn for it
ScriptMeta(oldScript, id, emptySrc) ==
  LET attrs == oldScript.attrs
      typeAttr == ToLowerCase(Trim(AttrOrEmpty(attrs, "type")))
  IN [id |-> id,
      attrs |-> attrs,
      code |-> IF SrcProperty(oldScript, emptySrc)
                 THEN NoCode
                 ELSE InlineCode(oldScript.text),
      hasSrc |-> SrcProperty(oldScript, emptySrc),
      isAsync |-> HasAttr(attrs, "async"),
      isDefer |-> HasAttr(attrs, "defer"),
      isModule |-> typeAttr = ModuleType]

\* the comment node that takes the script's place
Placeholder(id) == Comment(MarkerPrefix \o id)

\* the loop over querySelectorAll('script'): from position i on, with n ids
\* handed out so far; acc is the metas pushed so far
RECURSIVE ExtractFrom(_, _, _, _, _)
ExtractFrom(container, i, n, acc, emptySrc) ==
  IF i > Len(container)
    THEN [metas |-> acc, container |-> container, uids |-> n]
    ELSE IF container[i].kind = "script"
      THEN ExtractFrom([container EXCEPT ![i] = Placeholder(uid(n))],
                       i + 1, n + 1,
                       Append(acc, ScriptMeta(container[i], uid(n), emptySrc)),
                       emptySrc)
      ELSE ExtractFrom(container, i + 1, n, acc, emptySrc)

\* extractScriptsWithPlaceholders with a loop that starts at the second node
ExtractFromSecond(container, n, emptySrc) ==
  ExtractFrom(container, 2, n, <<>>, emptySrc)

\* extractScriptsWithPlaceholders(container), n ids having been handed out
\* before the call: the metas, the container as the call leaves it, and the
\* number of ids handed out after it
extractScriptsWithPlaceholders(container, n, emptySrc) ==
  ExtractFrom(container, 1, n, <<>>, emptySrc)

(***************************************************************************)
(* directRenderer: createExecutableScript                                  *)
(***************************************************************************)
\* meta.hasSrc && meta.attrs['src']
HasUsableSrc(meta) ==
  meta.hasSrc /\ HasAttr(meta.attrs, "src") /\ GetAttr(meta.attrs, "src") # <<>>

\* the attributes of the new element: the forwarded ones, then type, async,
\* defer and src as the flags of the meta say (none of the four is forwarded,
\* so setting one adds it)
ExecutableAttrs(meta) ==
  {p \in meta.attrs : p[1] \notin SpecialAttrs}
    \cup (IF meta.isModule THEN {<<"type", ModuleType>>} ELSE {})
    \cup (IF meta.isAsync THEN {<<"async", <<>>>>} ELSE {})
    \cup (IF meta.isDefer THEN {<<"defer", <<>>>>} ELSE {})
    \cup (IF HasUsableSrc(meta)
           THEN {<<"src", normalizeAttr(GetAttr(meta.attrs, "src"))>>}
           ELSE {})

createExecutableScript(meta) ==
  [kind |-> "script",
   attrs |-> ExecutableAttrs(meta),
   text |-> IF ~HasUsableSrc(meta) /\ ~meta.code.isNull THEN meta.code.text ELSE <<>>,
   executable |-> TRUE]

(***************************************************************************)
(* directRenderer: insertScriptAtPlaceholder                               *)
(***************************************************************************)
\* InsertSettlement without the resolve() of the placeholder-missing branch
InsertSettlementUnresolved(at, meta) ==
  IF at = 0 THEN "never"
  ELSE IF HasUsableSrc(meta) THEN "load"
  ELSE "microtask"

\* InsertSettlement waiting for the element's signal also when the
\* placeholder is missing
InsertSettlementByLoad(at, meta) ==
  IF HasUsableSrc(meta) THEN "load" ELSE "microtask"

\* InsertSettlement testing meta.hasSrc alone
InsertSettlementByHasSrc(at, meta) ==
  IF at = 0 THEN "resolved"
  ELSE IF meta.hasSrc THEN "load"
  ELSE "microtask"

\* InsertSettlement with queueMicrotask(resolve) for external scripts too
InsertSettlementByMicrotask(at, meta) ==
  IF at = 0 THEN "resolved" ELSE "microtask"

\* what the promise of insertScriptAtPlaceholder waits for once the
\* placeholder lookup has returned position at (0: not found)
InsertSettlement(at, meta) ==
  IF at = 0 THEN "resolved"
  ELSE IF HasUsableSrc(meta) THEN "load"
  ELSE "microtask"

\* ReplaceWith appending the element when there is no placeholder
ReplaceOrAppend(root, at, s) ==
  IF at = 0 THEN Append(root, s) ELSE [root EXCEPT ![at] = s]

\* ReplaceWith removing the placeholder and appending the element to the
\* root
ReplaceAtEnd(root, at, s) ==
  IF at = 0 THEN root
  ELSE Append(SubSeq(root, 1, at - 1) \o SubSeq(root, at + 1, Len(root)), s)

\* placeholder.replaceWith(s), or nothing when the lookup returned null
ReplaceWith(root, at, s) == IF at = 0 THEN root ELSE [root EXCEPT ![at] = s]

\* the promise executor of insertScriptAtPlaceholder with the lookup's result
InsertAt(root, meta, at) ==
  [root |-> ReplaceWith(root, at, createExecutableScript(meta)),
   inserted |-> at # 0,
   waits |-> InsertSettlement(at, meta)]

\* the promise executor of insertScriptAtPlaceholder(root, meta): root as it
\* leaves it, and what the returned promise waits for
insertScriptAtPlaceholder(root, meta) ==
  CHOOSE result \in
    {InsertAt(root, meta, at) : at \in {findPlaceholderNode(root, meta.id)}} : TRUE

\* the grouping loop of renderDirectly
IsAsyncGroup(m) == m.isAsync

\* IsDeferGroup without the else of the grouping loop
HasDeferFlag(m) == m.isDefer

IsDeferGroup(m) == ~m.isAsync /\ m.isDefer

\* IsSequentialGroup taking every record that is not async
IsNotAsync(m) == ~m.isAsync

IsSequentialGroup(m) == ~m.isAsync /\ ~m.isDefer

asyncScripts(scriptMetas) == SelectSeq(scriptMetas, IsAsyncGroup)

deferScripts(scriptMetas) == SelectSeq(scriptMetas, IsDeferGroup)

sequential(scriptMetas) == SelectSeq(scriptMetas, IsSequentialGroup)

\* RemoveChildren with an if in place of the while
RemoveFirstChild(children) ==
  IF children = <<>> THEN children ELSE Tail(children)

\* clearElement / clearShadowRoot / the clearing loop at the head of both
\* renderers: while (firstChild) removeChild(firstChild)
RECURSIVE RemoveChildren(_)
RemoveChildren(children) ==
  IF children = <<>> THEN children ELSE RemoveChildren(Tail(children))

clearElement(children) == RemoveChildren(children)

clearShadowRoot(children) == RemoveChildren(children)

(***************************************************************************)
(* shadowRenderer: extractAndInjectFontFaces.  A stylesheet text is a      *)
(* sequence of characters in which the ten characters "@font-face" are     *)
(* kept as one element: the token starts with the only "@" of the          *)
(* alphabet, so containment and search see what they see on characters.    *)
(***************************************************************************)
FontFaceToken == <<"@font-face">>

\* ScanBraces without the count of opening braces
RECURSIVE ScanToFirstClose(_, _, _)
ScanToFirstClose(cssText, braceEnd, braceCount) ==
  IF braceEnd <= Len(cssText) /\ braceCount > 0
    THEN ScanToFirstClose(cssText, braceEnd + 1,
                          IF cssText[braceEnd] = "}" THEN braceCount - 1
                          ELSE braceCount)
    ELSE [braceEnd |-> braceEnd, braceCount |-> braceCount]

\* the inner while loop: from braceEnd on, with braceCount braces open
RECURSIVE ScanBraces(_, _, _)
ScanBraces(cssText, braceEnd, braceCount) ==
  IF braceEnd <= Len(cssText) /\ braceCount > 0
    THEN ScanBraces(cssText, braceEnd + 1,
                    IF cssText[braceEnd] = "{" THEN braceCount + 1
                    ELSE IF cssText[braceEnd] = "}" THEN braceCount - 1
                    ELSE braceCount)
    ELSE [braceEnd |-> braceEnd, braceCount |-> braceCount]

\* the outer while loop over one style element's text, from pos on
\* (positions are 1-based: pos is the index of the next character to scan)
RECURSIVE ScanFontFaces(_, _, _)
ScanFontFaces(cssText, pos, found) ==
  IF pos > Len(cssText) THEN found
  ELSE LET fontFaceStart == IndexOf(cssText, FontFaceToken, pos)
       IN IF fontFaceStart = 0 THEN found
          ELSE LET braceStart == IndexOf(cssText, <<"{">>, fontFaceStart)
               IN IF braceStart = 0 THEN found
                  ELSE LET scan == ScanBraces(cssText, braceStart + 1, 1)
                       IN ScanFontFaces(
                            cssText, scan.braceEnd,
                            IF scan.braceCount = 0
                              THEN Append(found,
                                     Trim(SubSeq(cssText, fontFaceStart,
                                                 scan.braceEnd - 1)))
                              ELSE found)

\* styleElements.forEach: the rules of every style element of doc, in order
RECURSIVE fontFaceRules(_)
fontFaceRules(doc) ==
  IF doc = <<>> THEN <<>>
  ELSE IF Head(doc).kind = "style"
    THEN ScanFontFaces(Head(doc).text, 1, <<>>) \o fontFaceRules(Tail(doc))
    ELSE fontFaceRules(Tail(doc))

\* IsNewRule without the duplicate test
AlwaysNewRule(existingContent, rule) == TRUE

\* the duplicate test made for one rule against the text read before the loop
IsNewRule(existingContent, rule) == ~Includes(existingContent, rule)

\* fontFaceRules.forEach: the rules appended, in order
RECURSIVE AppendedRules(_, _)
AppendedRules(existingContent, rules) ==
  IF rules = <<>> THEN <<>>
  ELSE IF IsNewRule(existingContent, Head(rules))
    THEN <<Head(rules)>> \o AppendedRules(existingContent, Tail(rules))
    ELSE AppendedRules(existingContent, Tail(rules))

\* the loop's statement with = in the place of +=: the block holds the last
\* rule alone
ReplaceRules(text, rules) ==
  IF rules = <<>> THEN text ELSE <<"\n">> \o rules[Len(rules)]

\* fontStyleElement.textContent += '\n' + rule, for each rule appended
RECURSIVE JoinRules(_, _)
JoinRules(text, rules) ==
  IF rules = <<>> THEN text
  ELSE JoinRules(text \o <<"\n">> \o Head(rules), Tail(rules))

NoFontStyle == [present |-> FALSE, text |-> <<>>]

\* extractAndInjectFontFaces without the test fontFaceRules.length > 0
InjectAlways(doc, fontStyleElement) ==
  [style |-> [present |-> TRUE,
              text |-> JoinRules(fontStyleElement.text,
                                 AppendedRules(fontStyleElement.text,
                                               fontFaceRules(doc)))],
   appended |-> AppendedRules(fontStyleElement.text, fontFaceRules(doc))]

\* lines 76-93 of extractAndInjectFontFaces, rules being the rules found:
\* the style element #shadow-dom-fonts as they leave it, and the rules
\* appended
InjectRules(rules, fontStyleElement) ==
  LET existingContent == fontStyleElement.text
      appended == AppendedRules(existingContent, rules)
  IN IF rules = <<>>
       THEN [style |-> fontStyleElement, appended |-> <<>>]
       ELSE [style |-> [present |-> TRUE,
                        text |-> JoinRules(existingContent, appended)],
             appended |-> appended]

\* extractAndInjectFontFaces(doc): the style element #shadow-dom-fonts as the
\* call leaves it, and the rules it appended
extractAndInjectFontFaces(doc, fontStyleElement) ==
  InjectRules(fontFaceRules(doc), fontStyleElement)

HtmlTag == <<"h", "t", "m", "l">>

\* document.importNode(doc.documentElement, true): a deep copy of the parsed
\* tree; a copied script element stays as inert as the parser made it
importNode(node) == node

\* renderIntoShadowRoot(shadowRoot, html): the children of the shadow root,
\* the font style element and the rules appended
renderIntoShadowRoot(children, markup, fontStyleElement) ==
  LET cleared == RemoveChildren(children)
      doc == <<Element(HtmlTag)>> \o markup
      injected == extractAndInjectFontFaces(doc, fontStyleElement)
  IN [children |-> cleared \o [i \in 1..Len(doc) |-> importNode(doc[i])],
      style |-> injected.style,
      appended |-> injected.appended]

(***************************************************************************)
(* directRenderer: the scheduler of renderDirectly between two suspension  *)
(* points                                                                  *)
(***************************************************************************)
\* one more promise, left pending unless it is resolved already
WithPending(pending, id, waits) ==
  IF waits = "resolved" THEN pending ELSE pending \cup {<<id, waits>>}

WithInserted(log, id, inserted) == IF inserted THEN Append(log, id) ELSE log

\* the async loop after one more call, whose result is r
RECURSIVE InsertAll(_, _, _, _)
InsertNext(r, list, log, pending) ==
  InsertAll(r.root, Tail(list),
            WithInserted(log, Head(list).id, r.inserted),
            WithPending(pending, Head(list).id, r.waits))

\* insertScriptAtPlaceholder called on every meta of a list without
\* awaiting: the root, the ids inserted and the promises left pending
InsertAll(root, list, log, pending) ==
  IF list = <<>>
    THEN [root |-> root, log |-> log, pending |-> pending]
    ELSE CHOOSE result \in
           {InsertNext(r, list, log, pending) :
              r \in {insertScriptAtPlaceholder(root, Head(list))}} : TRUE

\* the phase renderDirectly is in when resumed in phase pc, the k-th record
\* of that phase's group having completed (k = 0: none yet)
NextPhase(pc, k, scriptMetas) ==
  CASE pc = "sequential" /\ k < Len(sequential(scriptMetas)) -> "sequential"
    [] pc = "sequential" -> "flush"
    [] pc = "flush" /\ 0 < Len(deferScripts(scriptMetas)) -> "deferred"
    [] pc = "deferred" /\ k < Len(deferScripts(scriptMetas)) -> "deferred"
    [] OTHER -> "done"

\* the records handed to insertScriptAtPlaceholder before the next suspension
Batch(pc, k, scriptMetas) ==
  CASE NextPhase(pc, k, scriptMetas) = "sequential" ->
         <<sequential(scriptMetas)[k + 1]>>
    [] NextPhase(pc, k, scriptMetas) = "flush" -> asyncScripts(scriptMetas)
    [] NextPhase(pc, k, scriptMetas) = "deferred" ->
         <<deferScripts(scriptMetas)[(IF pc = "flush" THEN 0 ELSE k) + 1]>>
    [] OTHER -> <<>>

\* the state of the render at its next suspension point, phase being the
\* phase it is then in, r the result of the batch's insertions and n the
\* ids of the records of the batch, in the order of their calls
Suspended(phase, pc, k, r, n) ==
  [pc |-> phase,
   k |-> IF phase \in {"sequential", "deferred"}
           THEN (IF pc = "flush" THEN 0 ELSE k) + 1
           ELSE 0,
   waits |-> IF phase \in {"sequential", "deferred"}
               THEN (IF r.pending = {} THEN "resolved"
                     ELSE (CHOOSE p \in r.pending : TRUE)[2])
               ELSE IF phase = "flush" THEN "tick" ELSE "resolved",
   root |-> r.root,
   log |-> r.log,
   handed |-> n,
   pending |-> IF phase = "flush" THEN r.pending ELSE {}]

\* renderDirectly resumed in phase pc, the k-th record of the phase's group
\* having completed (k = 0: none yet), and run up to its next suspension
\* point: await insertScriptAtPlaceholder (sequential, deferred), await
\* nextTick() (flush) or its return (done)
Advance(pc, k, root, scriptMetas) ==
  CHOOSE run \in
    {Suspended(phase, pc, k, r, n) :
       phase \in {NextPhase(pc, k, scriptMetas)},
       r \in {InsertAll(root, Batch(pc, k, scriptMetas), <<>>, {})},
       n \in {[i \in 1..Len(Batch(pc, k, scriptMetas)) |->
                 Batch(pc, k, scriptMetas)[i].id]}} : TRUE

\* renderDirectly(target, html) up to its first suspension point, n ids
\* having been handed out before
Scheduled(children, extracted) ==
  [run |-> Advance("sequential", 0, children \o extracted.container,
                   extracted.metas),
   metas |-> extracted.metas,
   uids |-> extracted.uids]

\* renderDirectly without the clearing loop at its head
renderDirectlyAppending(children, markup, n, emptySrc) ==
  Scheduled(children, extractScriptsWithPlaceholders(markup, n, emptySrc))

renderDirectly(children, markup, n, emptySrc) ==
  Scheduled(RemoveChildren(children),
            extractScriptsWithPlaceholders(markup, n, emptySrc))

(***************************************************************************)
(* State                                                                   *)
(***************************************************************************)
VARIABLES
  html,          \* options.html, parsed: the markup's nodes in document order
  isShadow,      \* options.isShadow
  hostRef,       \* hostRef.value is set when the mount hook runs
  nested,        \* the host's root node is a shadow root
  canAttach,     \* hostRef.value.attachShadow succeeds
  emptySrc,      \* the platform resolves an empty src to a non-empty URL
  props,         \* the component's props as its parent has last set them
  life,          \* "created", "mounted", "unmounted"
  hostChildren,  \* light-DOM children of the host element
  shadow,        \* shadowRoot.value: [attached, children]
  external,      \* the auxiliary container: [state, children]
  targetRef,     \* targetRef.value is set
  siblings,      \* the child nodes of the parent of that shadow root's host,
                 \* in order; empty when there is no such parent
  render,        \* the renderDirectly call of this instance; handed is the
                 \* history of the ids given to insertScriptAtPlaceholder
  uids,          \* ids handed out by uid() so far
  fontStyle,     \* the style element #shadow-dom-fonts of the document
  fontRules,     \* history: every rule appended to it, in order
  execLog,       \* history: ids of the executable scripts inserted, in order
  calls,         \* history: calls of the renderers' entry points
  console,       \* history: messages logged
  clearRun,      \* history: clear() calls made in a row, up to MaxClearRun
  rt,            \* one script element taken through extraction and back
  roots,         \* shadow roots rendered into directly (renderIntoShadowRoot)
  renders,       \* history: the renderIntoShadowRoot calls made on roots
  scan,          \* the @font-face scan of one extractAndInjectFontFaces call
  earlier        \* a renderDirectly call on the target of render, started
                 \* before it and still running

config == <<html, isShadow, hostRef, nested, canAttach, emptySrc, props>>

dom == <<hostChildren, shadow, external, targetRef, siblings>>

fonts == <<fontStyle, fontRules>>

instance == <<life, render, uids, execLog, calls, console, clearRun>>

apiVars == <<rt, roots, renders, scan, earlier>>

vars == <<config, dom, fonts, instance, apiVars>>

NoRender ==
  [pc |-> "idle", target |-> "host", metas |-> <<>>, k |-> 0,
   waits |-> "resolved", pending |-> {}, handed |-> <<>>]

\* no call has been overtaken; since is history: the number of records the
\* call had handed to insertScriptAtPlaceholder when the later call started
NoEarlier ==
  [pc |-> "idle", target |-> "host", metas |-> <<>>, k |-> 0,
   waits |-> "resolved", pending |-> {}, handed |-> <<>>, since |-> 0]

NoCalls == [extract |-> 0, insert |-> 0, shadow |-> 0, direct |-> 0]

NoScan ==
  [styles |-> <<>>, block |-> 0, pos |-> 0, found |-> <<>>, open |-> {},
   steps |-> 0, done |-> FALSE]

NoRoundTrip ==
  [stage |-> "none", source |-> Element(<<>>), meta |-> <<>>, made |-> Element(<<>>)]

(***************************************************************************)
(* Markup of the lifecycle specification                                   *)
(***************************************************************************)
SrcA == <<"a", ".", "j", "s">>

CodeX == <<"x">>

RuleA == <<"@font-face", "{", "a", "}">>

NodePool ==
  { ParsedScript({}, CodeX),
    ParsedScript({<<"src", SrcA>>}, <<>>),
    ParsedScript({<<"src", SrcA>>, <<"async", <<>>>>}, <<>>),
    ParsedScript({<<"defer", <<>>>>}, CodeX),
    ParsedScript({<<"src", SrcA>>, <<"defer", <<>>>>}, <<>>),
    ParsedScript({<<"src", SrcA>>, <<"async", <<>>>>, <<"defer", <<>>>>}, <<>>),
    ParsedScript({<<"type", ModuleType>>}, CodeX),
    StyleElement(RuleA),
    Element(<<"d", "i", "v">>) }

Markups == UNION {[1..n -> NodePool] : n \in 0..MaxNodes}

(***************************************************************************)
(* useHtmlRenderer                                                         *)
(***************************************************************************)
Min(a, b) == IF a < b THEN a ELSE b

\* SelectedRenderer ignoring the mode flag
AlwaysDirectRenderer(shadowMode) == "direct"

\* render(): which renderer the mode flag selects
SelectedRenderer(shadowMode) == IF shadowMode THEN "shadow" ELSE "direct"

\* getTargetEl(): targetRef.value ?? hostRef.value
getTargetEl(tref) ==
  IF tref THEN "external" ELSE IF hostRef THEN "host" ELSE "none"

TargetChildren(t, host, ext) == IF t = "external" THEN ext.children ELSE host

\* render() in shadow mode has run renderIntoShadowRoot, with result r
ShadowRendered(sh, ext, r) ==
  /\ shadow' = [sh EXCEPT !.children = r.children]
  /\ fontStyle' = r.style
  /\ fontRules' = fontRules \o r.appended
  /\ external' = ext
  /\ calls' = [calls EXCEPT !.shadow = @ + 1]
  /\ UNCHANGED <<hostChildren, render, uids, execLog, console>>

\* render() in direct mode has run renderDirectly on target t up to its
\* first suspension point, with result r
DirectStarted(sh, ext, t, r) ==
  /\ hostChildren' = IF t = "host" THEN r.run.root ELSE hostChildren
  /\ external' = IF t = "external" THEN [ext EXCEPT !.children = r.run.root] ELSE ext
  /\ shadow' = sh
  /\ render' = [pc |-> r.run.pc, target |-> t, metas |-> r.metas, k |-> r.run.k,
                waits |-> r.run.waits, pending |-> r.run.pending,
                handed |-> r.run.handed]
  /\ uids' = r.uids
  /\ execLog' = execLog \o r.run.log
  /\ calls' = [calls EXCEPT !.direct = @ + 1, !.extract = @ + 1,
                            !.insert = @ + Len(r.run.handed)]
  /\ UNCHANGED <<fonts, console>>

\* render() has logged an error and returned
RenderRefused(sh, ext, message) ==
  /\ console' = console \cup {message}
  /\ shadow' = sh
  /\ external' = ext
  /\ UNCHANGED <<hostChildren, fonts, render, uids, execLog, calls>>

\* render(), called with the shadow root, the auxiliary container and
\* targetRef as the mount hook has set them up
RenderCall(sh, ext, tref) ==
  IF SelectedRenderer(isShadow) = "shadow"
    THEN IF ~sh.attached
      THEN RenderRefused(sh, ext, "Shadow root not available for rendering")
      ELSE ShadowRendered(sh, ext,
                          renderIntoShadowRoot(sh.children, html, fontStyle))
    ELSE IF getTargetEl(tref) = "none"
      THEN RenderRefused(sh, ext, "Target element not available for rendering")
      ELSE DirectStarted(sh, ext, getTargetEl(tref),
                         renderDirectly(
                           TargetChildren(getTargetEl(tref), hostChildren, ext),
                           html, uids, emptySrc))

\* MountedShadow attaching a shadow root in either mode
MountedShadowInEitherMode == [attached |-> TRUE, children |-> <<>>]

\* what the mount hook sets up before it calls render()
MountedShadow == IF isShadow THEN [attached |-> TRUE, children |-> <<>>] ELSE shadow

\* the nodes the model tells apart among the children of the outer host's
\* parent: the outer host (root.host) and the auxiliary container
OuterHost == "ceHost"

Container == "external"

\* parent && typeof parent.insertBefore === 'function', parent being
\* ceHost.parentNode
HasOuterParent(nodes) == nodes # <<>>

\* the mount hook of a direct-mode instance creates an auxiliary container
NeedsContainer == ~isShadow /\ nested /\ HasOuterParent(siblings)

\* InsertAfterHost appending the container to the parent
AppendedToParent(nodes) == Append(nodes, Container)

\* parent.insertBefore(external, ceHost.nextSibling)
InsertAfterHost(nodes) ==
  CHOOSE result \in
    {SubSeq(nodes, 1, i) \o <<Container>> \o SubSeq(nodes, i + 1, Len(nodes)) :
       i \in {j \in 1..Len(nodes) : nodes[j] = OuterHost}} : TRUE

MountedExternal ==
  IF NeedsContainer THEN [state |-> "attached", children |-> <<>>] ELSE external

MountedTargetRef == IF NeedsContainer THEN TRUE ELSE targetRef

MountedSiblings == IF NeedsContainer THEN InsertAfterHost(siblings) ELSE siblings

\* AttachThrows for a platform that never refuses
AttachNeverThrows(shadowMode, can) == FALSE

\* hostRef.value.attachShadow({ mode: 'open' }) throws
AttachThrows(shadowMode, can) == shadowMode /\ ~can

\* onMounted
Mount ==
  /\ life = "created"
  /\ life' = "mounted"
  /\ clearRun' = 0
  /\ UNCHANGED <<config, apiVars>>
  /\ IF ~hostRef
       THEN UNCHANGED <<dom, fonts, render, uids, execLog, calls, console>>
     ELSE IF AttachThrows(isShadow, canAttach)
       THEN /\ console' = console \cup {"Failed to attach shadow root:"}
            /\ UNCHANGED <<dom, fonts, render, uids, execLog, calls>>
     ELSE /\ targetRef' = MountedTargetRef
          /\ siblings' = MountedSiblings
          /\ RenderCall(MountedShadow, MountedExternal, MountedTargetRef)

\* the body of clear(): the trees as clear() leaves them
clear(host, sh, ext, tref) ==
  IF isShadow /\ sh.attached
    THEN [host |-> host,
          shadow |-> [sh EXCEPT !.children = clearShadowRoot(@)],
          external |-> ext]
  ELSE IF getTargetEl(tref) = "external"
    THEN [host |-> host, shadow |-> sh,
          external |-> [ext EXCEPT !.children = clearElement(@)]]
  ELSE IF getTargetEl(tref) = "host"
    THEN [host |-> clearElement(host), shadow |-> sh, external |-> ext]
  ELSE [host |-> host, shadow |-> sh, external |-> ext]

\* clear() called by the component's user
Clear ==
  /\ hostChildren' = clear(hostChildren, shadow, external, targetRef).host
  /\ shadow' = clear(hostChildren, shadow, external, targetRef).shadow
  /\ external' = clear(hostChildren, shadow, external, targetRef).external
  /\ clearRun' = Min(clearRun + 1, MaxClearRun)
  /\ UNCHANGED <<config, targetRef, siblings, fonts, life, render, uids,
                 execLog, calls, console, apiVars>>

\* DetachedContainer without the removeChild of the hook
KeptContainer(ext, tref) == ext

\* the auxiliary container after the hook's last block: removed from its
\* parent when this instance made one
DetachedContainer(ext, tref) ==
  IF ~isShadow /\ tref THEN [ext EXCEPT !.state = "detached"] ELSE ext

IsNotContainer(node) == node # Container

\* DetachedSiblings without the removeChild of the hook
KeptSiblings(nodes, tref) == nodes

\* external.parentNode.removeChild(external), when this instance made one
DetachedSiblings(nodes, tref) ==
  IF ~isShadow /\ tref THEN SelectSeq(nodes, IsNotContainer) ELSE nodes

\* onBeforeUnmount
Unmount ==
  /\ life = "mounted"
  /\ life' = "unmounted"
  /\ hostChildren' = clear(hostChildren, shadow, external, targetRef).host
  /\ shadow' = clear(hostChildren, shadow, external, targetRef).shadow
  /\ external' =
       DetachedContainer(clear(hostChildren, shadow, external, targetRef).external,
                         targetRef)
  /\ targetRef' = IF ~isShadow /\ targetRef THEN FALSE ELSE targetRef
  /\ siblings' = DetachedSiblings(siblings, targetRef)
  /\ clearRun' = 0
  /\ UNCHANGED <<config, fonts, render, uids, execLog, calls, console, apiVars>>

(***************************************************************************)
(* renderDirectly resumed by the event loop                                *)
(***************************************************************************)
\* the render has run from one suspension point to the next, with result run
Continued(run) ==
  /\ hostChildren' = IF render.target = "host" THEN run.root ELSE hostChildren
  /\ external' = IF render.target = "external"
                   THEN [external EXCEPT !.children = run.root]
                   ELSE external
  /\ render' = [render EXCEPT !.pc = run.pc, !.k = run.k, !.waits = run.waits,
                              !.pending = @ \cup run.pending,
                              !.handed = @ \o run.handed]
  /\ execLog' = execLog \o run.log
  /\ calls' = [calls EXCEPT !.insert = @ + Len(run.handed)]
  /\ clearRun' = 0
  /\ UNCHANGED <<config, shadow, targetRef, siblings, fonts, life, uids, console,
                 apiVars>>

\* the render resumed in the phase it waits in
Continue ==
  \E run \in {Advance(render.pc, render.k,
                       TargetChildren(render.target, hostChildren, external),
                       render.metas)} :
    Continued(run)

\* the awaited insertScriptAtPlaceholder promise has resolved: the loop of
\* the sequential or of the deferred phase goes on
Resume ==
  /\ render.pc \in {"sequential", "deferred"}
  /\ render.waits = "resolved"
  /\ Continue

\* nextTick() has resolved: the deferred phase starts
Flush ==
  /\ render.pc = "flush"
  /\ Continue

\* the record whose insertion the render awaits
Awaited ==
  IF render.pc = "sequential" THEN sequential(render.metas)[render.k]
  ELSE deferScripts(render.metas)[render.k]

\* a promise of insertScriptAtPlaceholder that waits for event is resolved:
\* the awaited one, or one of an async record
Settle(event) ==
  /\ \/ /\ render.pc \in {"sequential", "deferred"}
        /\ render.waits = event
        /\ render' = [render EXCEPT !.waits = "resolved"]
     \/ \E p \in render.pending :
          /\ p[2] = event
          /\ render' = [render EXCEPT !.pending = @ \ {p}]
  /\ clearRun' = 0
  /\ UNCHANGED <<config, dom, fonts, life, uids, execLog, calls, apiVars>>

\* the callback given to queueMicrotask after an inline script's insertion
Microtask == Settle("microtask") /\ UNCHANGED console

\* the load listener of an inserted external script
ScriptLoad == Settle("load") /\ UNCHANGED console

\* ScriptError without the resolve() of the listener
ScriptErrorUnresolved ==
  /\ \E p \in render.pending : p[2] = "load"
  /\ console' = console \cup {"Error loading script"}
  /\ clearRun' = 0
  /\ UNCHANGED <<config, dom, fonts, life, render, uids, execLog, calls,
                 apiVars>>

\* the error listener of an inserted external script
ScriptError ==
  /\ Settle("load")
  /\ console' = console \cup {"Error loading script"}

(***************************************************************************)
(* Lifecycle specification: one component instance.  Microtask, ScriptLoad *)
(* and ScriptError are no steps of it: every insertScriptAtPlaceholder of  *)
(* a render resolves at once (NoInsertionWaits), so none is ever enabled.  *)
(***************************************************************************)
Init ==
  /\ html \in Markups
  /\ isShadow \in BOOLEAN
  /\ hostRef \in BOOLEAN
  /\ nested \in IF isShadow THEN {FALSE} ELSE BOOLEAN
  /\ canAttach \in IF isShadow THEN BOOLEAN ELSE {TRUE}
  /\ emptySrc = FALSE
  /\ props = [html |-> html, isShadow |-> isShadow]
  /\ life = "created"
  /\ hostChildren = <<>>
  /\ shadow = [attached |-> FALSE, children |-> <<>>]
  /\ external = [state |-> "none", children |-> <<>>]
  /\ targetRef = FALSE
  /\ siblings \in IF nested THEN {<<OuterHost, "next">>} ELSE {<<>>}
  /\ render = NoRender
  /\ earlier = NoEarlier
  /\ uids = 0
  /\ fontStyle = NoFontStyle
  /\ fontRules = <<>>
  /\ execLog = <<>>
  /\ calls = NoCalls
  /\ console = {}
  /\ clearRun = 0
  /\ rt = NoRoundTrip
  /\ roots = <<>>
  /\ renders = <<>>
  /\ scan = NoScan

Next == Mount \/ Clear \/ Unmount \/ Resume \/ Flush

Spec == Init /\ [][Next]_vars

\* the event loop runs the continuation of a resolved await, and nextTick()
\* resolves
FairSpec == Spec /\ WF_vars(Resume) /\ WF_vars(Flush)

\* no promise of a render waits for a microtask, a load or an error
NoInsertionWaits ==
  /\ render.waits \in {"resolved", "tick"}
  /\ render.pending = {}

(***************************************************************************)
(* Properties of the direct renderer, checked under Spec                   *)
(***************************************************************************)
\* the children of the target the render of this instance works on
TargetNow == TargetChildren(render.target, hostChildren, external)

\* the render has started and nothing has emptied its target since
Intact == render.pc # "idle" /\ Len(TargetNow) = Len(html)

RenderDone == render.pc = "done"

Ids(metas) == [i \in 1..Len(metas) |-> metas[i].id]

IsPrefix(s, t) == Len(s) <= Len(t) /\ SubSeq(t, 1, Len(s)) = s

\* position of id in the log of insertions; 0 when the id is not in it
LogPos(id) ==
  IF \E i \in 1..Len(execLog) : execLog[i] = id
    THEN CHOOSE i \in 1..Len(execLog) : execLog[i] = id
    ELSE 0

AllSequential(metas) == \A i \in 1..Len(metas) : IsSequentialGroup(metas[i])

\* C1: in direct mode, markup whose scripts S1..Sn are all sequential has them
\* inserted as executable elements in document order, one after the other
\* (the insertions made so far are always S1..Sk for some k), and
\* renderDirectly's promise resolves only once all n have been inserted.
C1_SequentialInDocumentOrder ==
  (Intact /\ AllSequential(render.metas)) =>
    /\ IsPrefix(execLog, Ids(render.metas))
    /\ RenderDone => execLog = Ids(render.metas)

\* C2: while a record's marker is under the target, findPlaceholderNode with
\* the record's id returns that marker: never null, never another node.
C2_LookupFindsMarker ==
  \A i \in 1..Len(render.metas) :
    (\E j \in 1..Len(TargetNow) : TargetNow[j] = Placeholder(render.metas[i].id)) =>
      /\ findPlaceholderNode(TargetNow, render.metas[i].id) # 0
      /\ TargetNow[findPlaceholderNode(TargetNow, render.metas[i].id)]
           = Placeholder(render.metas[i].id)

\* C3: in direct mode, with nothing emptying the target, every script of the
\* markup (sequential, async, deferred; inline, external) has been inserted
\* into the target as an executable script element by the time renderDirectly
\* returns.
C3_EveryScriptInserted ==
  (RenderDone /\ Intact) =>
    \A i \in 1..Len(render.metas) :
      /\ LogPos(render.metas[i].id) # 0
      /\ \E j \in 1..Len(TargetNow) :
           TargetNow[j] = createExecutableScript(render.metas[i])

\* C4: in direct mode, for a defer script that precedes a sequential script
\* in the markup, both are inserted and the sequential one is inserted first.
C4_SequentialBeforeDefer ==
  (RenderDone /\ Intact) =>
    \A d \in 1..Len(render.metas) : \A q \in 1..Len(render.metas) :
      (d < q /\ IsDeferGroup(render.metas[d]) /\ IsSequentialGroup(render.metas[q])) =>
        /\ LogPos(render.metas[q].id) # 0
        /\ LogPos(render.metas[d].id) # 0
        /\ LogPos(render.metas[q].id) < LogPos(render.metas[d].id)

HasHungAsync(metas) ==
  \E i \in 1..Len(metas) : metas[i].isAsync /\ metas[i].hasSrc

\* C5: a direct-mode render of markup with an async external script, whose
\* load or error signal never arrives, still returns: its promise resolves
\* whatever becomes of the async group.
C5_RenderResolvesDespiteHungAsync ==
  (render.pc # "idle" /\ HasHungAsync(render.metas)) ~> RenderDone

C5_Witness ==
  /\ RenderDone
  /\ HasHungAsync(render.metas)
  /\ \E i \in 1..Len(render.metas) : IsSequentialGroup(render.metas[i])

(***************************************************************************)
(* Properties of the lifecycle, checked under Spec                         *)
(***************************************************************************)
HasExecutableScript(children) ==
  \E i \in 1..Len(children) :
    children[i].kind = "script" /\ children[i].executable

HasScript(children) == \E i \in 1..Len(children) : children[i].kind = "script"

\* C6: in shadow mode, whatever the markup and whatever the sequence of
\* mount, clear and unmount, script extraction and insertScriptAtPlaceholder
\* are never invoked and no tree holds an executable script element.
C6_NoExecutableScriptInShadowMode ==
  isShadow =>
    /\ calls.extract = 0 /\ calls.insert = 0 /\ calls.direct = 0
    /\ render.pc = "idle"
    /\ execLog = <<>>
    /\ ~HasExecutableScript(shadow.children)
    /\ ~HasExecutableScript(hostChildren)
    /\ ~HasExecutableScript(external.children)

C6_Witness ==
  /\ isShadow
  /\ calls.shadow = 1
  /\ HasScript(html)
  /\ HasScript(shadow.children)

\* the children clear() acts on
ActiveChildren ==
  IF isShadow /\ shadow.attached THEN shadow.children
  ELSE IF targetRef THEN external.children
  ELSE IF hostRef THEN hostChildren
  ELSE <<>>

\* C10: after clear() the active target has no children and is itself in
\* place (shadow root attached, container where it was); a second clear() in
\* a row changes nothing.
C10_ClearIdempotent ==
  /\ [](clearRun >= 1 => ActiveChildren = <<>>)
  /\ [][clearRun' >= 1 =>
          /\ shadow'.attached = shadow.attached
          /\ external'.state = external.state
          /\ targetRef' = targetRef
          /\ clearRun >= 1 => UNCHANGED dom]_vars

C10_Witness ==
  /\ clearRun >= 2
  /\ life = "mounted"
  /\ render.pc # "idle" \/ calls.shadow = 1
  /\ html # <<>>

(***************************************************************************)
(* Font-face specification: renderIntoShadowRoot called on two shadow      *)
(* roots with documents put together from known rule blocks                *)
(***************************************************************************)
\* a stylesheet text is written as a list of items
ItemText(item) ==
  CASE item = "Ra" -> <<"@font-face", "{", "a", "}">>
    [] item = "Rb" -> <<"@font-face", "{", "b", "}">>
    [] item = "Rn" -> <<"@font-face", "{", "a", "{", "b", "}", "}">>
    [] item = "Filler" -> <<"a", "{", "b", "}", " ">>
    [] item = "Open" -> <<"@font-face", "{", "a">>
    [] OTHER -> <<>>

RuleItems == {"Ra", "Rb", "Rn"}

RECURSIVE CssOf(_)
CssOf(items) ==
  IF items = <<>> THEN <<>> ELSE ItemText(Head(items)) \o CssOf(Tail(items))

\* the parsed document: one style element per list of items
DocOf(blocks) == [b \in 1..Len(blocks) |-> StyleElement(CssOf(blocks[b]))]

FontDocs ==
  { <<>>,
    << <<"Ra">> >>,
    << <<"Rb">> >>,
    << <<"Ra", "Rb">> >>,
    << <<"Ra", "Ra">> >>,
    << <<"Ra">>, <<"Ra">> >>,
    << <<"Rn">> >>,
    << <<"Filler", "Rb">> >>,
    << <<"Filler">> >>,
    << <<"Rb">>, <<"Rn", "Filler", "Ra">> >>,
    << <<"Rb", "Open">> >>,
    << <<"Open">> >>,
    << <<"Filler", "Open">> >> }

Roots == {1, 2}

\* renderIntoShadowRoot(roots[r], doc) has run, with result res
FontRendered(r, blocks, res) ==
  /\ roots' = [roots EXCEPT ![r] = res.children]
  /\ fontStyle' = res.style
  /\ fontRules' = fontRules \o res.appended
  /\ renders' = Append(renders, [blocks |-> blocks,
                                 before |-> fontStyle.text,
                                 after |-> res.style.text,
                                 appended |-> res.appended])

\* renderIntoShadowRoot(shadowRoot, html) called by the library's user
RenderIntoShadowRoot ==
  /\ Len(renders) < MaxRenders
  /\ \E r \in Roots : \E blocks \in FontDocs :
       \E res \in {renderIntoShadowRoot(roots[r], DocOf(blocks), fontStyle)} :
         FontRendered(r, blocks, res)
  /\ UNCHANGED <<config, dom, instance, rt, scan, earlier>>

\* clearShadowRoot(shadowRoot) called by the library's user
ClearShadowRoot ==
  /\ \E r \in Roots : roots' = [roots EXCEPT ![r] = clearShadowRoot(roots[r])]
  /\ UNCHANGED <<config, dom, fonts, instance, rt, renders, scan, earlier>>

FontInit ==
  /\ html = <<>>
  /\ isShadow = TRUE
  /\ hostRef = FALSE
  /\ nested = FALSE
  /\ canAttach = TRUE
  /\ emptySrc = FALSE
  /\ props = [html |-> html, isShadow |-> isShadow]
  /\ life = "created"
  /\ hostChildren = <<>>
  /\ shadow = [attached |-> FALSE, children |-> <<>>]
  /\ external = [state |-> "none", children |-> <<>>]
  /\ targetRef = FALSE
  /\ siblings = <<>>
  /\ render = NoRender
  /\ earlier = NoEarlier
  /\ uids = 0
  /\ fontStyle = NoFontStyle
  /\ fontRules = <<>>
  /\ execLog = <<>>
  /\ calls = NoCalls
  /\ console = {}
  /\ clearRun = 0
  /\ rt = NoRoundTrip
  /\ roots = [r \in Roots |-> <<>>]
  /\ renders = <<>>
  /\ scan = NoScan

FontNext == RenderIntoShadowRoot \/ ClearShadowRoot

SpecFont == FontInit /\ [][FontNext]_vars

\* the rule blocks a document was put together from, in text order
RECURSIVE RulesOfItems(_)
RulesOfItems(items) ==
  IF items = <<>> THEN <<>>
  ELSE IF Head(items) \in RuleItems
    THEN <<ItemText(Head(items))>> \o RulesOfItems(Tail(items))
    ELSE RulesOfItems(Tail(items))

RECURSIVE RulesOfDoc(_)
RulesOfDoc(blocks) ==
  IF blocks = <<>> THEN <<>>
  ELSE RulesOfItems(Head(blocks)) \o RulesOfDoc(Tail(blocks))

\* every block of the document is complete
WellNested(blocks) ==
  \A b \in 1..Len(blocks) : \A i \in 1..Len(blocks[b]) : blocks[b][i] # "Open"

NoDuplicates(seq) ==
  \A i \in 1..Len(seq) : \A j \in 1..Len(seq) : seq[i] = seq[j] => i = j

\* C7: a document of N complete @font-face blocks with N different texts,
\* rendered while the shared style block is empty, has exactly these N rule
\* texts appended; rendering a document again right after it was rendered
\* (into the same or another root) appends nothing and leaves the text as it
\* was.
C7_FontFacesAppendedOnce ==
  \A i \in 1..Len(renders) :
    /\ ( /\ renders[i].before = <<>>
         /\ WellNested(renders[i].blocks)
         /\ NoDuplicates(RulesOfDoc(renders[i].blocks)) ) =>
         /\ renders[i].appended = RulesOfDoc(renders[i].blocks)
         /\ renders[i].after = JoinRules(<<>>, RulesOfDoc(renders[i].blocks))
    /\ (i > 1 /\ renders[i].blocks = renders[i - 1].blocks) =>
         /\ renders[i].appended = <<>>
         /\ renders[i].after = renders[i].before

C7_Witness ==
  /\ Len(renders) = 2
  /\ renders[1].before = <<>>
  /\ renders[1].blocks = renders[2].blocks
  /\ Len(RulesOfDoc(renders[1].blocks)) = 3
  /\ Len(renders[1].appended) = 3
  /\ roots[1] # <<>> /\ roots[2] # <<>>

\* C8: the shared font-face style block never holds the same rule text twice.
C8_NoDuplicateRules == NoDuplicates(fontRules)

(***************************************************************************)
(* Round-trip specification: one parsed script element taken through       *)
(* extractScriptsWithPlaceholders and createExecutableScript               *)
(***************************************************************************)
TextJavascript ==
  <<"t", "e", "x", "t", "/", "j", "a", "v", "a", "s", "c", "r", "i", "p", "t">>

TextPlain == <<"t", "e", "x", "t", "/", "p", "l", "a", "i", "n">>

SrcValues == {SrcA, <<" ">> \o SrcA \o <<" ">>, <<>>}

TypeValues ==
  {<<>>, ModuleType, <<" ", "M", "o", "d", "u", "l", "e", " ">>,
   TextJavascript, TextPlain}

OptionalAttr(name, values) == {{}} \cup {{<<name, v>>} : v \in values}

SourceAttrs ==
  {src \cup async \cup defer \cup type \cup other :
     src \in OptionalAttr("src", SrcValues),
     async \in OptionalAttr("async", {<<>>}),
     defer \in OptionalAttr("defer", {<<>>}),
     type \in OptionalAttr("type", TypeValues),
     other \in OptionalAttr("nonce", {<<"n">>})}

SourceScripts ==
  {ParsedScript(attrs, text) : attrs \in SourceAttrs, text \in {<<>>, CodeX}}

\* extractScriptsWithPlaceholders called on a container holding the element
Extract ==
  /\ rt.stage = "source"
  /\ \E res \in {extractScriptsWithPlaceholders(<<rt.source>>, uids, emptySrc)} :
       /\ rt' = [rt EXCEPT !.stage = "extracted", !.meta = res.metas[1]]
       /\ uids' = res.uids
  /\ UNCHANGED <<config, dom, fonts, life, render, execLog, calls, console,
                 clearRun, roots, renders, scan, earlier>>

\* createExecutableScript called on the record
Materialize ==
  /\ rt.stage = "extracted"
  /\ rt' = [rt EXCEPT !.stage = "materialized",
                      !.made = createExecutableScript(rt.meta)]
  /\ UNCHANGED <<config, dom, fonts, instance, roots, renders, scan,
                 earlier>>

RoundTripInit ==
  /\ html = <<>>
  /\ isShadow = FALSE
  /\ hostRef = FALSE
  /\ nested = FALSE
  /\ canAttach = TRUE
  /\ emptySrc \in BOOLEAN
  /\ props = [html |-> html, isShadow |-> isShadow]
  /\ life = "created"
  /\ hostChildren = <<>>
  /\ shadow = [attached |-> FALSE, children |-> <<>>]
  /\ external = [state |-> "none", children |-> <<>>]
  /\ targetRef = FALSE
  /\ siblings = <<>>
  /\ render = NoRender
  /\ earlier = NoEarlier
  /\ uids = 0
  /\ fontStyle = NoFontStyle
  /\ fontRules = <<>>
  /\ execLog = <<>>
  /\ calls = NoCalls
  /\ console = {}
  /\ clearRun = 0
  /\ \E source \in SourceScripts :
       rt = [stage |-> "source", source |-> source, meta |-> <<>>,
             made |-> Element(<<>>)]
  /\ roots = <<>>
  /\ renders = <<>>
  /\ scan = NoScan

RoundTripNext == Extract \/ Materialize

SpecRoundTrip == RoundTripInit /\ [][RoundTripNext]_vars

\* what the platform makes of a script element's type attribute: no
\* attribute or an empty value is a classic script, otherwise the value is
\* stripped and compared case-insensitively: a JavaScript MIME type is a
\* classic script, "module" a module script, anything else a data block
\* that is never run
ScriptType(el) ==
  IF ~HasAttr(el.attrs, "type") \/ GetAttr(el.attrs, "type") = <<>>
    THEN "classic"
  ELSE IF ToLowerCase(Trim(GetAttr(el.attrs, "type"))) = TextJavascript
    THEN "classic"
  ELSE IF ToLowerCase(Trim(GetAttr(el.attrs, "type"))) = ModuleType
    THEN "module"
  ELSE "data"

\* the state of a script element that decides what the platform does with it
EffectiveState(el) ==
  [external |-> HasAttr(el.attrs, "src"),
   src |-> Trim(AttrOrEmpty(el.attrs, "src")),
   async |-> HasAttr(el.attrs, "async"),
   defer |-> HasAttr(el.attrs, "defer"),
   type |-> ScriptType(el)]

NonSpecial(attrs) == {p \in attrs : p[1] \notin SpecialAttrs}

\* C9: the element createExecutableScript makes from an extracted record has
\* the source element's non-special attributes, name and value, and the same
\* effective state: same external source (trimmed), same async and defer
\* flags, same script type.
C9_RoundTripKeepsEffectiveState ==
  rt.stage = "materialized" =>
    /\ NonSpecial(rt.made.attrs) = NonSpecial(rt.source.attrs)
    /\ EffectiveState(rt.made) = EffectiveState(rt.source)

(***************************************************************************)
(* Properties of the scheduler's phases, checked under Spec                *)
(***************************************************************************)
InLog(id) == LogPos(id) # 0

GroupIds(group) == {group[i].id : i \in 1..Len(group)}

\* C11: renderDirectly's promise resolves only once the flush boundary has
\* passed and every record of the deferred group has completed: its marker
\* replaced by the executable element and nothing of it left to wait for.
C11_ResolvesAfterDeferredDrained ==
  (RenderDone /\ Intact) =>
    /\ render.waits = "resolved"
    /\ \A id \in GroupIds(deferScripts(render.metas)) :
         /\ InLog(id)
         /\ \A j \in 1..Len(TargetNow) : TargetNow[j] # Placeholder(id)

\* C13: a module script with neither async nor defer is scheduled in the
\* deferred group, and so is not inserted while the sequential phase runs.
C13_ModuleDeferredByDefault ==
  \A i \in 1..Len(render.metas) :
    (render.metas[i].isModule /\ ~render.metas[i].isAsync
       /\ ~render.metas[i].isDefer) =>
      /\ IsDeferGroup(render.metas[i])
      /\ render.pc = "sequential" => ~InLog(render.metas[i].id)

\* every id of group a that is in the log comes before every id of group b
\* that is in the log
LoggedBefore(a, b) ==
  \A x \in GroupIds(a) : \A y \in GroupIds(b) :
    (InLog(x) /\ InLog(y)) => LogPos(x) < LogPos(y)

\* C14: while the sequential phase runs, no async and no deferred script has
\* been inserted; at the flush boundary every sequential and every async
\* script has been inserted and no deferred one; the insertions of the
\* sequential group come before those of the async group, which come before
\* those of the deferred group.
C14_CrossGroupOrder ==
  Intact =>
    /\ render.pc = "sequential" =>
         \A id \in GroupIds(asyncScripts(render.metas))
                     \cup GroupIds(deferScripts(render.metas)) : ~InLog(id)
    /\ render.pc \in {"flush", "deferred", "done"} =>
         \A id \in GroupIds(sequential(render.metas))
                     \cup GroupIds(asyncScripts(render.metas)) : InLog(id)
    /\ render.pc = "flush" =>
         \A id \in GroupIds(deferScripts(render.metas)) : ~InLog(id)
    /\ LoggedBefore(sequential(render.metas), asyncScripts(render.metas))
    /\ LoggedBefore(asyncScripts(render.metas), deferScripts(render.metas))
    /\ LoggedBefore(sequential(render.metas), deferScripts(render.metas))

(***************************************************************************)
(* Insertion specification: insertScriptAtPlaceholder, an export of the    *)
(* library, called on a root whose comments the caller has written;        *)
(* hostChildren holds the children of that root and render.pending the     *)
(* promises returned and not yet resolved                                  *)
(***************************************************************************)
RootNodes ==
  { Comment(LookupPrefix \o uid(0)),
    Comment(LookupPrefix \o uid(1)),
    Comment(MarkerPrefix \o uid(0)),
    Element(<<"d", "i", "v">>) }

InsertRoots == UNION {[1..n -> RootNodes] : n \in 0..MaxRootNodes}

\* the records handed in: those extraction builds for an inline script and
\* for an external one, and for a script with src="", whose hasSrc flag is
\* true where the platform resolves the empty value to a URL
InsertRecords ==
  {ScriptMeta(script, uid(k), FALSE) :
     script \in {ParsedScript({}, CodeX), ParsedScript({<<"src", SrcA>>}, <<>>)},
     k \in {0, 1}}
    \cup {ScriptMeta(ParsedScript({<<"src", <<>>>>}, CodeX), uid(k), resolves) :
            k \in {0, 1}, resolves \in BOOLEAN}

\* insertScriptAtPlaceholder(root, meta) has returned its promise, r being
\* what its executor did
InsertReturned(r, meta) ==
  /\ hostChildren' = r.root
  /\ render' = [render EXCEPT !.pending = WithPending(@, meta.id, r.waits),
                              !.handed = Append(@, meta.id)]
  /\ execLog' = WithInserted(execLog, meta.id, r.inserted)
  /\ calls' = [calls EXCEPT !.insert = @ + 1]
  /\ clearRun' = 0
  /\ UNCHANGED <<config, shadow, external, targetRef, siblings, fonts, life,
                 uids, console, apiVars>>

\* a call of insertScriptAtPlaceholder with a record whose promise, if one
\* was returned before, has resolved
InsertCall ==
  /\ calls.insert < MaxInsertCalls
  /\ \E meta \in InsertRecords :
       /\ \A p \in render.pending : p[1] # meta.id
       /\ \E r \in {insertScriptAtPlaceholder(hostChildren, meta)} :
            InsertReturned(r, meta)

InsertInit ==
  /\ html = <<>>
  /\ isShadow = FALSE
  /\ hostRef = TRUE
  /\ nested = FALSE
  /\ canAttach = TRUE
  /\ emptySrc = FALSE
  /\ props = [html |-> html, isShadow |-> isShadow]
  /\ life = "created"
  /\ hostChildren \in InsertRoots
  /\ shadow = [attached |-> FALSE, children |-> <<>>]
  /\ external = [state |-> "none", children |-> <<>>]
  /\ targetRef = FALSE
  /\ siblings = <<>>
  /\ render = NoRender
  /\ earlier = NoEarlier
  /\ uids = 0
  /\ fontStyle = NoFontStyle
  /\ fontRules = <<>>
  /\ execLog = <<>>
  /\ calls = NoCalls
  /\ console = {}
  /\ clearRun = 0
  /\ rt = NoRoundTrip
  /\ roots = <<>>
  /\ renders = <<>>
  /\ scan = NoScan

InsertStep == InsertCall \/ Microtask \/ ScriptLoad \/ ScriptError

SpecInsert == InsertInit /\ [][InsertStep]_vars

\* C12: when the error signal of an inserted external script is handled,
\* the error is logged and the promise that waited for the script resolves;
\* the tree is left as it is, and no promise is ever left in a state other
\* than waiting for a load/error signal or for its microtask.
C12_ErrorLoggedAndResolved ==
  /\ [](\A p \in render.pending : p[2] \in {"load", "microtask"})
  /\ [][console' # console =>
          /\ "Error loading script" \in console'
          /\ \E p \in render.pending :
               /\ p[2] = "load"
               /\ render'.pending = render.pending \ {p}
          /\ hostChildren' = hostChildren]_vars

C12_Witness ==
  /\ "Error loading script" \in console
  /\ render.pending = {}
  /\ HasExecutableScript(hostChildren)
  /\ \E i \in 1..Len(hostChildren) : HasAttr(hostChildren[i].attrs, "src")

(***************************************************************************)
(* Lifecycle specification with the events of the component's environment: *)
(* the parent sets new props, and the clear() of the unmount hook raises   *)
(***************************************************************************)
PropMarkups == {<<>>, <<ParsedScript({}, CodeX)>>}

PropValues == [html : PropMarkups, isShadow : BOOLEAN]

\* PropChange followed by a render(), as a watcher on the props would do
PropChangeRerenders ==
  /\ life = "mounted"
  /\ \E new \in PropValues : new # props /\ props' = new
  /\ RenderCall(shadow, external, targetRef)
  /\ UNCHANGED <<html, isShadow, hostRef, nested, canAttach, emptySrc,
                 targetRef, siblings, life, clearRun, apiVars>>

\* the parent sets the html or the isShadow prop of the mounted component:
\* useHtmlRenderer has read options.html and options.isShadow once, at
\* setup, and registers nothing that runs on a change
PropChange ==
  /\ life = "mounted"
  /\ \E new \in PropValues : new # props /\ props' = new
  /\ UNCHANGED <<html, isShadow, hostRef, nested, canAttach, emptySrc, dom,
                 fonts, instance, apiVars>>

\* onBeforeUnmount when clear() raises before it has removed a node: the
\* catch block logs, and the hook goes on to the auxiliary container
UnmountClearRaised ==
  /\ life = "mounted"
  /\ life' = "unmounted"
  /\ console' = console \cup {"useHtmlRenderer: clear() failed during unmount"}
  /\ external' = DetachedContainer(external, targetRef)
  /\ targetRef' = IF ~isShadow /\ targetRef THEN FALSE ELSE targetRef
  /\ siblings' = DetachedSiblings(siblings, targetRef)
  /\ clearRun' = 0
  /\ UNCHANGED <<config, hostChildren, shadow, fonts, render, uids, execLog,
                 calls, apiVars>>

EnvNext == Next \/ PropChange \/ UnmountClearRaised

SpecEnv == Init /\ [][EnvNext]_vars

RendererCalls == calls.shadow + calls.direct

\* C15: over mount, prop changes, clear() calls and unmount, the renderer of
\* the instance is invoked at most once, and only by the mount hook.
C15_RenderOnce ==
  /\ [](RendererCalls <= 1)
  /\ [][RendererCalls' # RendererCalls =>
          life = "created" /\ life' = "mounted"]_vars

C15_Witness ==
  /\ life = "mounted"
  /\ RendererCalls = 1
  /\ props.html # html
  /\ clearRun >= 1

\* C16: the unmount hook always runs to its end: from every mounted state it
\* can complete also when clear() raises, the failure of clear() is only
\* logged, and in direct mode a container made by the instance is detached
\* and targetRef reset whether clear() raised or not.
C16_UnmountAlwaysProceeds ==
  /\ [](life = "mounted" => ENABLED UnmountClearRaised)
  /\ [][(life = "mounted" /\ life' = "unmounted") =>
          /\ (~isShadow /\ targetRef) =>
               (external'.state = "detached" /\ ~targetRef')
          /\ console' \subseteq
               console \cup {"useHtmlRenderer: clear() failed during unmount"}]_vars

C16_Witness ==
  /\ life = "unmounted"
  /\ "useHtmlRenderer: clear() failed during unmount" \in console
  /\ external.state = "detached"
  /\ external.children # <<>>
  /\ ~targetRef

UntouchedTrees ==
  /\ hostChildren = <<>>
  /\ shadow = [attached |-> FALSE, children |-> <<>>]
  /\ external = [state |-> "none", children |-> <<>>]
  /\ ~targetRef
  /\ fontStyle = NoFontStyle

\* C17: when attachShadow fails in the mount hook of a shadow-mode instance,
\* the error is logged, no renderer is invoked, no tree is ever given
\* content, and no shadow root is attached later.
C17_AttachFailureRendersNothing ==
  (isShadow /\ hostRef /\ ~canAttach /\ life # "created") =>
    /\ "Failed to attach shadow root:" \in console
    /\ calls = NoCalls
    /\ render = NoRender
    /\ UntouchedTrees

C17_Witness ==
  /\ isShadow /\ hostRef /\ ~canAttach
  /\ life = "mounted"
  /\ html # <<>>
  /\ clearRun >= 1

\* C18: when the mount hook runs with hostRef unset, an error is logged and
\* nothing is created, attached or changed.
C18_MissingHostLogged ==
  (~hostRef /\ life # "created") =>
    /\ console # {}
    /\ calls = NoCalls
    /\ UntouchedTrees

\* C19: a direct-mode instance never attaches a shadow root and never
\* touches the font-face style block; a shadow-mode instance never puts
\* content into its host's light DOM or into an auxiliary container; the
\* mode the instance works in never changes, whatever the isShadow prop
\* becomes.
C19_PipelinesExclusive ==
  /\ [](~isShadow =>
          /\ shadow = [attached |-> FALSE, children |-> <<>>]
          /\ fontStyle = NoFontStyle /\ fontRules = <<>>
          /\ calls.shadow = 0)
  /\ [](isShadow =>
          /\ hostChildren = <<>>
          /\ external = [state |-> "none", children |-> <<>>]
          /\ ~targetRef
          /\ calls.direct = 0 /\ calls.extract = 0 /\ calls.insert = 0)
  /\ [][isShadow' = isShadow]_vars

C19_Witness ==
  /\ ~isShadow
  /\ props.isShadow
  /\ RenderDone
  /\ \E i \in 1..Len(html) : html[i] = StyleElement(RuleA)
  /\ Len(hostChildren) = Len(html)

\* C20: once the target of a direct-mode render that has started is without
\* the content the render gave it (clear() or the unmount hook has emptied
\* it), no step puts a node into it: it stays without children, and nothing
\* more is inserted.
C20_NothingInsertedAfterClear ==
  [][(render.pc # "idle" /\ ~Intact) =>
       /\ TargetChildren(render.target, hostChildren', external') = <<>>
       /\ execLog' = execLog]_vars

C20_Witness ==
  /\ RenderDone
  /\ life = "mounted"
  /\ clearRun = 0
  /\ TargetNow = <<>>
  /\ Len(deferScripts(render.metas)) > 0
  /\ Len(sequential(render.metas)) > 0

(***************************************************************************)
(* The three groups of renderDirectly                                      *)
(***************************************************************************)
\* position of id among the records; 0 when no record has it
MetaPos(metas, id) ==
  IF \E i \in 1..Len(metas) : metas[i].id = id
    THEN CHOOSE i \in 1..Len(metas) : metas[i].id = id
    ELSE 0

\* the records of group are records of metas, in the order they have there
KeepsOrder(group, metas) ==
  \A i \in 1..Len(group) :
    /\ MetaPos(metas, group[i].id) # 0
    /\ metas[MetaPos(metas, group[i].id)] = group[i]
    /\ \A j \in 1..Len(group) :
         i < j => MetaPos(metas, group[i].id) < MetaPos(metas, group[j].id)

\* C21: the async, deferred and sequential groups of a render are disjoint
\* and together hold every extracted record; a record with isAsync is in the
\* async group only (also when it has isDefer), one with isDefer alone in the
\* deferred group only, every other in the sequential group only; each group
\* keeps its records in their document order.
C21_GroupsPartitionRecords ==
  /\ \A i \in 1..Len(render.metas) :
       /\ render.metas[i].id \in GroupIds(asyncScripts(render.metas))
            <=> render.metas[i].isAsync
       /\ render.metas[i].id \in GroupIds(deferScripts(render.metas))
            <=> (~render.metas[i].isAsync /\ render.metas[i].isDefer)
       /\ render.metas[i].id \in GroupIds(sequential(render.metas))
            <=> (~render.metas[i].isAsync /\ ~render.metas[i].isDefer)
  /\ Len(asyncScripts(render.metas)) + Len(deferScripts(render.metas))
       + Len(sequential(render.metas)) = Len(render.metas)
  /\ KeepsOrder(asyncScripts(render.metas), render.metas)
  /\ KeepsOrder(deferScripts(render.metas), render.metas)
  /\ KeepsOrder(sequential(render.metas), render.metas)

C21_Witness ==
  /\ RenderDone
  /\ Len(render.metas) = 3
  /\ \E i \in 1..3 : render.metas[i].isAsync /\ render.metas[i].isDefer
  /\ Len(asyncScripts(render.metas)) = 1
  /\ Len(deferScripts(render.metas)) = 1
  /\ Len(sequential(render.metas)) = 1

(***************************************************************************)
(* insertScriptAtPlaceholder on a record whose marker is gone              *)
(***************************************************************************)
\* a comment that carries id is among the nodes of root
MarkerUnder(root, id) ==
  \E j \in 1..Len(root) :
    root[j].kind = "comment" /\ Includes(root[j].text, id)

\* the ids given to insertScriptAtPlaceholder by the step
HandedNow == SubSeq(render'.handed, Len(render.handed) + 1, Len(render'.handed))

\* C22: when the render hands records to insertScriptAtPlaceholder while none
\* of their markers is under the target, the calls complete at once: nothing
\* is logged, no element is inserted, the target is as it was, no promise is
\* left pending, and the render is not held back (it awaits a resolved
\* promise, the flush boundary, or has returned).
C22_MissingMarkerCompletesAtOnce ==
  [][(/\ render.pc # "idle"
      /\ HandedNow # <<>>
      /\ \A i \in 1..Len(HandedNow) : ~MarkerUnder(TargetNow, HandedNow[i])) =>
       /\ TargetChildren(render.target, hostChildren', external') = TargetNow
       /\ execLog' = execLog
       /\ console' = console
       /\ render'.pending = render.pending
       /\ render'.waits \in {"resolved", "tick"}
       /\ render'.pc # render.pc \/ render'.k = render.k + 1]_vars

C22_Witness ==
  /\ render.pc = "sequential"
  /\ render.k = 2
  /\ Len(render.handed) = 2
  /\ render.waits = "resolved"
  /\ html # <<>>
  /\ TargetNow = <<>>
  /\ clearRun = 0
  /\ \E i \in 1..Len(render.metas) : HasUsableSrc(render.metas[i])

(***************************************************************************)
(* One insertion per record                                                *)
(***************************************************************************)
\* C23: in a direct-mode render no record has both its marker and its
\* inserted element under the target; the records are handed to
\* insertScriptAtPlaceholder one time each (all of them once the render has
\* returned), and no record is inserted twice, whatever the element's load
\* or error.
C23_EachRecordInsertedOnce ==
  /\ \A i \in 1..Len(render.metas) :
       InLog(render.metas[i].id) => ~MarkerUnder(TargetNow, render.metas[i].id)
  /\ NoDuplicates(render.handed)
  /\ NoDuplicates(execLog)
  /\ \A i \in 1..Len(render.handed) : MetaPos(render.metas, render.handed[i]) # 0
  /\ \A i \in 1..Len(execLog) :
       \E j \in 1..Len(render.handed) : render.handed[j] = execLog[i]
  /\ RenderDone => Len(render.handed) = Len(render.metas)

C23_Witness ==
  /\ RenderDone
  /\ Intact
  /\ Len(render.handed) = 3
  /\ HasUsableSrc(render.metas[1])
  /\ Len(deferScripts(render.metas)) = 1
  /\ \A i \in 1..3 : MarkerUnder(TargetNow, render.metas[i].id)

(***************************************************************************)
(* The promise of an inserted external script                              *)
(***************************************************************************)
\* the positions of root that hold a live script element with a src
ExternalScripts(root) ==
  {j \in 1..Len(root) :
     /\ root[j].kind = "script"
     /\ root[j].executable
     /\ HasAttr(root[j].attrs, "src")}

\* C24: a step that puts an external script element in place of a marker
\* leaves a promise that waits for the element's load or error (a pending
\* one, or the one the render awaits); such a
\* promise leaves the pending ones only in a step of the load or of the error
\* listener; and while a render awaits such a promise in its sequential or
\* deferred loop, it hands over and inserts nothing and stays in its phase.
C24_ExternalResolvesOnSignalOnly ==
  /\ [][ExternalScripts(hostChildren') \ ExternalScripts(hostChildren) # {} =>
          \/ \E p \in render'.pending \ render.pending : p[2] = "load"
          \/ render'.waits = "load"]_vars
  /\ [][(\E p \in render.pending \ render'.pending : p[2] = "load") =>
          (ScriptLoad \/ ScriptError)]_vars
  /\ [][(render.pc \in {"sequential", "deferred"} /\ render.waits = "load") =>
          /\ render'.pc = render.pc /\ render'.k = render.k
          /\ render'.handed = render.handed
          /\ execLog' = execLog
          /\ render'.waits # render.waits => (ScriptLoad \/ ScriptError)]_vars

C24_Witness ==
  /\ Len(render.handed) = 3
  /\ Len(execLog) >= 2
  /\ console = {}
  /\ \E p \in render.pending :
       /\ p[2] = "load"
       /\ execLog[1] = p[1]
       /\ render.handed[1] = p[1]

(***************************************************************************)
(* The deferred and the async phase                                        *)
(***************************************************************************)
IsDeferredId(id) == id \in GroupIds(deferScripts(render.metas))

IsAsyncId(id) == id \in GroupIds(asyncScripts(render.metas))

\* C25: with nothing emptying the target, no deferred record is inserted
\* before the flush boundary has passed; after it the deferred records are
\* inserted in document order, one per turn of the loop (while the k-th is
\* awaited exactly the first k have been inserted), and all of them have been
\* inserted when the render returns.
C25_DeferredAfterFlushInOrder ==
  Intact =>
    /\ IsPrefix(SelectSeq(execLog, IsDeferredId), Ids(deferScripts(render.metas)))
    /\ render.pc \in {"sequential", "flush"} =>
         SelectSeq(execLog, IsDeferredId) = <<>>
    /\ render.pc = "deferred" =>
         Len(SelectSeq(execLog, IsDeferredId)) = render.k
    /\ RenderDone =>
         SelectSeq(execLog, IsDeferredId) = Ids(deferScripts(render.metas))

\* C26: with nothing emptying the target, the async records are all inserted,
\* in document order, between two suspension points of the render: while the
\* render is in its sequential loop none of them has been inserted, and from
\* the flush boundary on all of them have, so that no state shows some of
\* them inserted and others not, and none has waited for another's load.
C26_AsyncInsertedInOneStep ==
  Intact =>
    /\ render.pc = "sequential" => SelectSeq(execLog, IsAsyncId) = <<>>
    /\ render.pc \in {"flush", "deferred", "done"} =>
         SelectSeq(execLog, IsAsyncId) = Ids(asyncScripts(render.metas))

(***************************************************************************)
(* The suspension points of renderDirectly                                 *)
(***************************************************************************)
\* C27: the step that starts a direct-mode render leaves the target holding
\* the whole markup (cleared, parsed, extracted and appended in one step);
\* and with nothing emptying the target, whenever the render suspends in its
\* sequential or deferred loop after handing a record over, it waits for
\* that record's load/error or for its microtask, its only other suspension
\* being the flush boundary.
C27_YieldsOnlyAtThreeKinds ==
  /\ [][(render.pc = "idle" /\ render'.pc # "idle") =>
          Len(TargetChildren(render'.target, hostChildren', external'))
            = Len(html)]_vars
  /\ [][(/\ HandedNow # <<>>
         /\ render'.pc \in {"sequential", "deferred"}
         /\ Len(TargetChildren(render'.target, hostChildren', external'))
              = Len(html)) =>
          render'.waits \in {"load", "microtask"}]_vars
  /\ [][render'.pc = "flush" => render'.waits = "tick"]_vars

(***************************************************************************)
(* Extraction specification: extractScriptsWithPlaceholders, an export of  *)
(* the library, called on a container into which the markup html was       *)
(* parsed; hostChildren holds the children of that container and           *)
(* render.metas the records the last call returned                         *)
(***************************************************************************)
ExtractCall ==
  /\ calls.extract < MaxExtractCalls
  /\ \E res \in {extractScriptsWithPlaceholders(hostChildren, uids, emptySrc)} :
       /\ hostChildren' = res.container
       /\ render' = [render EXCEPT !.metas = res.metas]
       /\ uids' = res.uids
  /\ calls' = [calls EXCEPT !.extract = @ + 1]
  /\ UNCHANGED <<config, shadow, external, targetRef, siblings, fonts, life,
                 execLog, console, clearRun, apiVars>>

ExtractInit ==
  /\ html \in Markups
  /\ isShadow = FALSE
  /\ hostRef = FALSE
  /\ nested = FALSE
  /\ canAttach = TRUE
  /\ emptySrc \in BOOLEAN
  /\ props = [html |-> html, isShadow |-> isShadow]
  /\ life = "created"
  /\ hostChildren = html
  /\ shadow = [attached |-> FALSE, children |-> <<>>]
  /\ external = [state |-> "none", children |-> <<>>]
  /\ targetRef = FALSE
  /\ siblings = <<>>
  /\ render = NoRender
  /\ earlier = NoEarlier
  /\ uids = 0
  /\ fontStyle = NoFontStyle
  /\ fontRules = <<>>
  /\ execLog = <<>>
  /\ calls = NoCalls
  /\ console = {}
  /\ clearRun = 0
  /\ rt = NoRoundTrip
  /\ roots = <<>>
  /\ renders = <<>>
  /\ scan = NoScan

SpecExtract == ExtractInit /\ [][ExtractCall]_vars

\* the positions of root that hold a script element
ScriptsOf(root) == {j \in 1..Len(root) : root[j].kind = "script"}

\* the comments of root that carry id
MarkersOf(root, id) ==
  {j \in 1..Len(root) : root[j].kind = "comment" /\ Includes(root[j].text, id)}

\* C28: a call of extractScriptsWithPlaceholders returns one record per
\* script element of the container, with ids that differ; afterwards the
\* container has as many nodes as before, none of them a script, the other
\* nodes where they were, and for the i-th record exactly one marker, at the
\* position of the i-th script element, whose attributes the record holds.
C28_OneRecordAndMarkerPerScript ==
  [][calls'.extract # calls.extract =>
       /\ Len(render'.metas) = Cardinality(ScriptsOf(hostChildren))
       /\ NoDuplicates(Ids(render'.metas))
       /\ Len(hostChildren') = Len(hostChildren)
       /\ ScriptsOf(hostChildren') = {}
       /\ \A j \in 1..Len(hostChildren) :
            j \notin ScriptsOf(hostChildren) => hostChildren'[j] = hostChildren[j]
       /\ \A i \in 1..Len(render'.metas) :
            \E j \in ScriptsOf(hostChildren) :
              /\ Cardinality({x \in ScriptsOf(hostChildren) : x < j}) = i - 1
              /\ MarkersOf(hostChildren', render'.metas[i].id) = {j}
              /\ render'.metas[i].attrs = hostChildren[j].attrs]_vars

C28_Witness ==
  /\ calls.extract = 1
  /\ Len(html) = 3
  /\ ScriptsOf(html) = {1, 3}
  /\ Len(render.metas) = 2
  /\ hostChildren[2] = html[2]
  /\ MarkersOf(hostChildren, render.metas[1].id) = {1}
  /\ MarkersOf(hostChildren, render.metas[2].id) = {3}

(***************************************************************************)
(* The payload of the element createExecutableScript returns               *)
(***************************************************************************)
\* C29: the element made from an extracted record has exactly one payload:
\* for a record with hasSrc the src attribute, holding the trimmed value of
\* the source's, and no text; for any other record no src attribute and the
\* record's code as its text.
C29_ExactlyOnePayload ==
  rt.stage = "materialized" =>
    /\ rt.meta.hasSrc =>
         /\ HasAttr(rt.made.attrs, "src")
         /\ GetAttr(rt.made.attrs, "src") = Trim(GetAttr(rt.meta.attrs, "src"))
         /\ rt.made.text = <<>>
    /\ ~rt.meta.hasSrc =>
         /\ ~HasAttr(rt.made.attrs, "src")
         /\ ~rt.meta.code.isNull
         /\ rt.made.text = rt.meta.code.text

(***************************************************************************)
(* The position of an inserted element                                     *)
(***************************************************************************)
\* the live script elements of root, by position
LiveScripts(root) ==
  {j \in 1..Len(root) : root[j].kind = "script" /\ root[j].executable}

\* C30: a call of insertScriptAtPlaceholder that inserts an element puts it
\* at the position its record's marker had: the root keeps its length, every
\* other node stays where it was, and the one node that changed was the
\* marker the lookup returns for the record and is now a live script element.
C30_ElementTakesMarkerPosition ==
  [][execLog' # execLog =>
       /\ Len(hostChildren') = Len(hostChildren)
       /\ findPlaceholderNode(hostChildren, execLog'[Len(execLog')]) # 0
       /\ LiveScripts(hostChildren') = LiveScripts(hostChildren)
            \cup {findPlaceholderNode(hostChildren, execLog'[Len(execLog')])}
       /\ \A j \in 1..Len(hostChildren) :
            j # findPlaceholderNode(hostChildren, execLog'[Len(execLog')]) =>
              hostChildren'[j] = hostChildren[j]
       /\ hostChildren[findPlaceholderNode(hostChildren, execLog'[Len(execLog')])]
            = Comment(LookupPrefix \o execLog'[Len(execLog')])]_vars

C30_Witness ==
  /\ Len(hostChildren) = 2
  /\ LiveScripts(hostChildren) = {1, 2}
  /\ HasAttr(hostChildren[1].attrs, "src")
  /\ ~HasAttr(hostChildren[2].attrs, "src")
  /\ execLog = <<uid(1), uid(0)>>
  /\ render.pending = {}

(***************************************************************************)
(* The shared font-face style block                                        *)
(***************************************************************************)
\* the document of the render made by the step
RenderedNow == renders'[Len(renders')].blocks

\* C31: a render of a document none of whose style blocks holds a complete
\* @font-face rule leaves the top-level document as it was: no style element
\* is created, and the text of an existing one is unchanged.
C31_NoRulesNoMutation ==
  [][(Len(renders') > Len(renders) /\ RulesOfDoc(RenderedNow) = <<>>) =>
       /\ fontStyle' = fontStyle
       /\ fontRules' = fontRules]_vars

C31_Witness ==
  /\ Len(renders) = 2
  /\ renders[1].appended # <<>>
  /\ renders[2].blocks = << <<"Filler", "Open">> >>
  /\ fontStyle.present
  /\ fontStyle.text = renders[1].after

\* C34: the shared font-face style block only grows, whatever renders into
\* shadow roots and clears of shadow roots happen: over every step its text
\* before is a prefix of its text after, every rule injected so far stays
\* in it, and the element, once created, stays.
C34_FontBlockAppendOnly ==
  /\ [][/\ IsPrefix(fontStyle.text, fontStyle'.text)
        /\ fontStyle.present => fontStyle'.present]_vars
  /\ [](\A i \in 1..Len(renders) :
          /\ IsPrefix(renders[i].before, renders[i].after)
          /\ IsPrefix(renders[i].after, fontStyle.text)
          /\ \A k \in 1..Len(renders[i].appended) :
               Includes(fontStyle.text, renders[i].appended[k]))

\* two renders have each appended a rule, and both roots have been cleared
\* since
C34_Witness ==
  /\ Len(renders) = 2
  /\ renders[1].appended # <<>>
  /\ renders[2].appended # <<>>
  /\ renders[2].before = renders[1].after
  /\ \A r \in Roots : roots[r] = <<>>
  /\ fontStyle.text = renders[2].after

(***************************************************************************)
(* Scan specification: one call of extractAndInjectFontFaces, an export of *)
(* the library, taken one turn of its while loop at a time.  scan holds    *)
(* the texts of the document's style elements, the element and the         *)
(* position the loop is at, the rules pushed so far (each with the element *)
(* and the span it was cut from) and, as history, the tokens at which a    *)
(* scan ended without a closing brace.                                     *)
(***************************************************************************)
CssText == scan.styles[scan.block]

\* cssText.indexOf('@font-face', pos)
FontFaceStart(cssText, pos) == IndexOf(cssText, FontFaceToken, pos)

\* cssText.indexOf('{', fontFaceStart)
BraceStart(cssText, fontFaceStart) == IndexOf(cssText, <<"{">>, fontFaceStart)

\* one of the two break statements of the loop is taken at pos
Breaks(cssText, pos) ==
  IF FontFaceStart(cssText, pos) = 0 THEN TRUE
  ELSE BraceStart(cssText, FontFaceStart(cssText, pos)) = 0

\* Pushed dropping what was found when the braces do not close
PushedOrReset(found, block, cssText, fontFaceStart, closing) ==
  IF closing.braceCount = 0
    THEN Append(found, [block |-> block, start |-> fontFaceStart,
                        end |-> closing.braceEnd - 1,
                        rule |-> Trim(SubSeq(cssText, fontFaceStart,
                                             closing.braceEnd - 1))])
    ELSE <<>>

\* if (braceCount === 0) fontFaceRules.push(...)
Pushed(found, block, cssText, fontFaceStart, closing) ==
  IF closing.braceCount = 0
    THEN Append(found, [block |-> block, start |-> fontFaceStart,
                        end |-> closing.braceEnd - 1,
                        rule |-> Trim(SubSeq(cssText, fontFaceStart,
                                             closing.braceEnd - 1))])
    ELSE found

\* NextPos resuming at the token
NextPosAtToken(fontFaceStart, closing) == fontFaceStart

\* pos = braceEnd
NextPos(fontFaceStart, closing) == closing.braceEnd

\* the body of the while loop has run to its end, the token having been
\* found at fontFaceStart and the inner loop having ended as closing says
Iterated(fontFaceStart, closing) ==
  scan' = [scan EXCEPT
             !.pos = NextPos(fontFaceStart, closing),
             !.found = Pushed(@, scan.block, CssText, fontFaceStart, closing),
             !.open = IF closing.braceCount = 0 THEN @
                      ELSE @ \cup {[block |-> scan.block, start |-> fontFaceStart]},
             !.steps = @ + 1]

\* one turn of the while loop that reaches pos = braceEnd
ScanIteration ==
  /\ ~scan.done
  /\ scan.block \in 1..Len(scan.styles)
  /\ scan.steps <= Len(CssText)
  /\ scan.pos <= Len(CssText)
  /\ ~Breaks(CssText, scan.pos)
  /\ \E fontFaceStart \in {FontFaceStart(CssText, scan.pos)} :
       \E closing \in
           {ScanBraces(CssText, BraceStart(CssText, fontFaceStart) + 1, 1)} :
         Iterated(fontFaceStart, closing)
  /\ UNCHANGED <<config, dom, fonts, instance, rt, roots, renders, earlier>>

\* the while loop of one style element ends (its condition is false, or a
\* break is taken) and forEach goes on to the next element
ScanNextBlock ==
  /\ ~scan.done
  /\ scan.block \in 1..Len(scan.styles)
  /\ IF scan.pos > Len(CssText) THEN TRUE ELSE Breaks(CssText, scan.pos)
  /\ scan' = [scan EXCEPT
                !.block = @ + 1,
                !.pos = 1,
                !.steps = 0,
                !.open = IF /\ scan.pos <= Len(CssText)
                            /\ FontFaceStart(CssText, scan.pos) # 0
                           THEN @ \cup {[block |-> scan.block,
                                         start |-> FontFaceStart(CssText, scan.pos)]}
                           ELSE @]
  /\ UNCHANGED <<config, dom, fonts, instance, rt, roots, renders, earlier>>

FoundRules == [i \in 1..Len(scan.found) |-> scan.found[i].rule]

\* forEach has ended: the rules found are injected (lines 76-93)
ScanInject ==
  /\ ~scan.done
  /\ scan.block > Len(scan.styles)
  /\ \E res \in {InjectRules(FoundRules, fontStyle)} :
       /\ fontStyle' = res.style
       /\ fontRules' = fontRules \o res.appended
  /\ scan' = [scan EXCEPT !.done = TRUE]
  /\ UNCHANGED <<config, dom, instance, rt, roots, renders, earlier>>

\* the texts of at most n characters over an alphabet
TextsOver(alphabet, n) == UNION {[1..k -> alphabet] : k \in 0..n}

\* the documents scanned: one style element with any text over four
\* characters, or two of them, the first with any text over the token and
\* the braces
ScanDocs ==
  {<<t>> : t \in TextsOver({"@font-face", "{", "}", "a"}, MaxCssLen)}
    \cup {<<t, u>> : t \in TextsOver({"@font-face", "{", "}"}, MaxCssLen),
                     u \in {<<"@font-face", "{", "}">>,
                            <<"@font-face", "{", "b", "}", "@font-face">>}}

\* the style block as an earlier call with the one rule @font-face{} left it
StyleWithRule ==
  InjectRules(<< <<"@font-face", "{", "}">> >>, NoFontStyle).style

ScanInit ==
  /\ html = <<>>
  /\ isShadow = TRUE
  /\ hostRef = FALSE
  /\ nested = FALSE
  /\ canAttach = TRUE
  /\ emptySrc = FALSE
  /\ props = [html |-> html, isShadow |-> isShadow]
  /\ life = "created"
  /\ hostChildren = <<>>
  /\ shadow = [attached |-> FALSE, children |-> <<>>]
  /\ external = [state |-> "none", children |-> <<>>]
  /\ targetRef = FALSE
  /\ siblings = <<>>
  /\ render = NoRender
  /\ earlier = NoEarlier
  /\ uids = 0
  /\ fontStyle \in {NoFontStyle, StyleWithRule}
  /\ fontRules = <<>>
  /\ execLog = <<>>
  /\ calls = NoCalls
  /\ console = {}
  /\ clearRun = 0
  /\ rt = NoRoundTrip
  /\ roots = <<>>
  /\ renders = <<>>
  /\ \E doc \in ScanDocs :
       scan = [styles |-> doc, block |-> 1, pos |-> 1, found |-> <<>>,
               open |-> {}, steps |-> 0, done |-> FALSE]

ScanNext == ScanIteration \/ ScanNextBlock \/ ScanInject

SpecScan == ScanInit /\ [][ScanNext]_vars

\* the call runs on: nothing it waits for lies between two turns of its loops
FairSpecScan == SpecScan /\ WF_vars(ScanNext)

(***************************************************************************)
(* The reference scan: the spans of a text's @font-face blocks, said by    *)
(* position rather than by loop                                            *)
(***************************************************************************)
Least(S) == CHOOSE x \in S : \A y \in S : x <= y

\* opening minus closing braces among the characters b..e of text
Depth(text, b, e) ==
  Cardinality({i \in b..e : text[i] = "{"})
    - Cardinality({i \in b..e : text[i] = "}"})

TokensFrom(text, pos) == {i \in pos..Len(text) : text[i] = "@font-face"}

OpeningsFrom(text, s) == {i \in s..Len(text) : text[i] = "{"}

ClosingsOf(text, b) == {e \in (b + 1)..Len(text) : Depth(text, b, e) = 0}

\* the first block at or after pos is complete
HasBlockFrom(text, pos) ==
  /\ TokensFrom(text, pos) # {}
  /\ OpeningsFrom(text, Least(TokensFrom(text, pos))) # {}
  /\ ClosingsOf(text, Least(OpeningsFrom(text, Least(TokensFrom(text, pos))))) # {}

BlockStart(text, pos) == Least(TokensFrom(text, pos))

BlockEnd(text, pos) ==
  Least(ClosingsOf(text, Least(OpeningsFrom(text, BlockStart(text, pos)))))

RECURSIVE RefScan(_, _, _)
RefScan(text, block, pos) ==
  IF ~HasBlockFrom(text, pos) THEN <<>>
  ELSE <<[block |-> block, start |-> BlockStart(text, pos),
          end |-> BlockEnd(text, pos),
          rule |-> Trim(SubSeq(text, BlockStart(text, pos), BlockEnd(text, pos)))]>>
         \o RefScan(text, block, BlockEnd(text, pos) + 1)

FoundIn(b) == SelectSeq(scan.found, LAMBDA r : r.block = b)

\* C33: when the scan of a document has ended, the rules pushed for each
\* style element are those of the reference scan of its text, in text
\* order: each the trimmed text from a token to the brace at which the depth
\* opened by the next "{" is back at zero, the next one sought right after
\* that brace; and no token is passed over: a token outside every span found
\* lies after all of them.
C33_ScanEqualsReference ==
  scan.done =>
    \A b \in 1..Len(scan.styles) :
      /\ FoundIn(b) = RefScan(scan.styles[b], b, 1)
      /\ \A t \in TokensFrom(scan.styles[b], 1) :
           \/ \E i \in 1..Len(scan.found) :
                /\ scan.found[i].block = b
                /\ scan.found[i].start <= t /\ t <= scan.found[i].end
           \/ \A i \in 1..Len(scan.found) :
                scan.found[i].block = b => scan.found[i].end < t

C33_Witness ==
  /\ scan.done
  /\ Len(scan.styles) = 1
  /\ Len(scan.found) = 2
  /\ scan.found[1].end + 1 = scan.found[2].start
  /\ fontStyle.present

\* C32: when the scan of a document has ended and the scan of a style
\* element has stopped at a token whose braces do not close (or that has no
\* opening brace after it), nothing from that token on has been pushed as a
\* rule, the rules pushed for that element are those of the text before the
\* token, the rules of the later elements are those of their texts, and every
\* rule pushed is in the style block.
C32_UnterminatedBlockStopsQuietly ==
  scan.done =>
    \A o \in scan.open :
      /\ scan.styles[o.block][o.start] = "@font-face"
      /\ ~HasBlockFrom(scan.styles[o.block], o.start)
      /\ \A i \in 1..Len(scan.found) :
           /\ scan.found[i].block = o.block => scan.found[i].end < o.start
           /\ Includes(fontStyle.text, scan.found[i].rule)
      /\ FoundIn(o.block)
           = RefScan(SubSeq(scan.styles[o.block], 1, o.start - 1), o.block, 1)
      /\ \A b \in (o.block + 1)..Len(scan.styles) :
           FoundIn(b) = RefScan(scan.styles[b], b, 1)

C32_Witness ==
  /\ scan.done
  /\ Len(scan.styles) = 2
  /\ Cardinality(scan.open) = 2
  /\ Len(FoundIn(1)) = 1
  /\ Len(FoundIn(2)) = 1
  /\ \E o \in scan.open : o.block = 1 /\ OpeningsFrom(scan.styles[1], o.start) # {}
  /\ \E o \in scan.open : o.block = 2 /\ OpeningsFrom(scan.styles[2], o.start) = {}
  /\ Len(fontRules) = 1

\* C36: every turn of the scan loop moves the position forward, the position
\* never passes the end of the text by more than one, a style element's loop
\* takes at most as many turns as its text has characters, and every scan
\* comes to its end.
C36_ScanTerminates ==
  /\ [][(~scan'.done /\ scan'.block = scan.block /\ scan' # scan) =>
          scan'.pos > scan.pos /\ scan'.steps = scan.steps + 1]_vars
  /\ [](scan.block \in 1..Len(scan.styles) =>
          /\ scan.pos <= Len(scan.styles[scan.block]) + 1
          /\ scan.steps <= Len(scan.styles[scan.block])
          /\ scan.steps < scan.pos)
  /\ <>scan.done

C36_Witness ==
  /\ scan.done
  /\ \E o \in scan.open : o.start > 1
  /\ \E b \in 1..Len(scan.styles) :
       /\ Len(scan.styles[b]) = MaxCssLen
       /\ Len(FoundIn(b)) = 1
       /\ Depth(scan.styles[b], 1, Len(scan.styles[b])) # 0

(***************************************************************************)
(* What an insertion waits for                                             *)
(***************************************************************************)
\* the elements the step has put into the root
InsertedNow ==
  {hostChildren'[i] : i \in {j \in 1..Len(hostChildren') :
                               hostChildren'[j] # hostChildren[j]}}

\* the promise returned by the step's call waits for a load or error signal
WaitsForSignalNow ==
  <<render'.handed[Len(render'.handed)], "load">> \in render'.pending

\* C37: a call of insertScriptAtPlaceholder waits for the load or error
\* signal exactly when the element it has put into the root has its src
\* attribute set; a call that inserted an element without one, or no
\* element, waits for no signal, and one that inserted an element without
\* one resolves by its microtask.
C37_WaitsIffSourceSet ==
  [][calls'.insert > calls.insert =>
       /\ WaitsForSignalNow <=> \E s \in InsertedNow : HasAttr(s.attrs, "src")
       /\ \A s \in InsertedNow :
            /\ s.kind = "script" /\ s.executable
            /\ ~HasAttr(s.attrs, "src") =>
                 <<render'.handed[Len(render'.handed)], "microtask">>
                   \in render'.pending]_vars

\* the record of a script with src="" and hasSrc true has been inserted:
\* the element has neither source nor code, and its promise waits for the
\* microtask
C37_Witness ==
  /\ \E i \in 1..Len(hostChildren) :
       /\ hostChildren[i].executable
       /\ ~HasAttr(hostChildren[i].attrs, "src")
       /\ hostChildren[i].text = <<>>
  /\ render.handed = <<uid(0)>>
  /\ render.pending = {<<uid(0), "microtask">>}

(***************************************************************************)
(* Nesting specification: one component instance whose host may sit in the *)
(* shadow root of an outer host, the outer host having a parent with other *)
(* children before or after it, or no parent at all                        *)
(***************************************************************************)
MaxNestNodes == 2

NestMarkups == UNION {[1..n -> NodePool] : n \in 0..MaxNestNodes}

\* the children of ceHost.parentNode; the empty sequence: no parent
NestSiblings ==
  { <<>>,
    <<OuterHost>>,
    <<OuterHost, "next">>,
    <<"prev", OuterHost>> }

NestInit ==
  /\ html \in NestMarkups
  /\ isShadow \in BOOLEAN
  /\ hostRef \in BOOLEAN
  /\ nested \in IF hostRef THEN BOOLEAN ELSE {FALSE}
  /\ canAttach \in IF isShadow THEN BOOLEAN ELSE {TRUE}
  /\ emptySrc = FALSE
  /\ props = [html |-> html, isShadow |-> isShadow]
  /\ life = "created"
  /\ hostChildren = <<>>
  /\ shadow = [attached |-> FALSE, children |-> <<>>]
  /\ external = [state |-> "none", children |-> <<>>]
  /\ targetRef = FALSE
  /\ siblings \in IF nested THEN NestSiblings ELSE {<<>>}
  /\ render = NoRender
  /\ earlier = NoEarlier
  /\ uids = 0
  /\ fontStyle = NoFontStyle
  /\ fontRules = <<>>
  /\ execLog = <<>>
  /\ calls = NoCalls
  /\ console = {}
  /\ clearRun = 0
  /\ rt = NoRoundTrip
  /\ roots = <<>>
  /\ renders = <<>>
  /\ scan = NoScan

SpecNest == NestInit /\ [][EnvNext]_vars

\* the number of auxiliary containers among the children of the outer
\* host's parent
ContainersPresent ==
  Cardinality({i \in 1..Len(siblings) : siblings[i] = Container})

\* the tree renderDirectly leaves in an empty target at its first
\* suspension point
FirstContent == renderDirectly(<<>>, html, 0, emptySrc).run.root

\* the step is the mount hook of a direct-mode instance that has a host
DirectMountNow == life = "created" /\ life' = "mounted" /\ ~isShadow /\ hostRef

\* C35: in direct mode an auxiliary container is made exactly when the host
\* sits in a shadow root whose host has a parent; while the instance is
\* mounted it is the child of that parent right after the outer host, the
\* parent's other children staying as they were; the mount hook renders
\* into it and every later step of the render works on it, the host staying
\* empty; without a container the hook renders into the host.
C35_ContainerIffNestedWithParent ==
  /\ [](~isShadow /\ life # "created" =>
          (external.state # "none" <=> hostRef /\ nested /\ HasOuterParent(siblings)))
  /\ [](isShadow \/ life = "created" => external.state = "none")
  /\ [](~isShadow /\ life = "mounted" /\ external.state # "none" =>
          /\ ContainersPresent = 1
          /\ \E i \in 1..(Len(siblings) - 1) :
               siblings[i] = OuterHost /\ siblings[i + 1] = Container)
  /\ [][SelectSeq(siblings', IsNotContainer) = SelectSeq(siblings, IsNotContainer)]_vars
  /\ [](external.state # "none" =>
          hostChildren = <<>> /\ render.target = "external")
  /\ [](external.state = "none" =>
          external.children = <<>> /\ render.target # "external")
  /\ [][DirectMountNow =>
          IF nested /\ HasOuterParent(siblings)
            THEN external'.children = FirstContent /\ hostChildren' = <<>>
            ELSE hostChildren' = FirstContent /\ external' = external]_vars

\* the container sits between the outer host and the node after it, and
\* holds the two nodes of the rendered markup, the render having ended
C35_Witness ==
  /\ life = "mounted"
  /\ siblings = <<OuterHost, Container, "next">>
  /\ external.state = "attached"
  /\ Len(external.children) = 2
  /\ Len(render.handed) = 2
  /\ render.pc = "done"
  /\ hostChildren = <<>>

\* the instance is mounted in direct mode on a host that sits in a shadow
\* root
MountedNestedDirect == life = "mounted" /\ ~isShadow /\ hostRef /\ nested

\* C39 as stated: the number of auxiliary containers present equals the
\* number of mounted direct-mode instances whose host sits in a shadow
\* root.
C39_ContainersCountNested ==
  ContainersPresent = IF MountedNestedDirect THEN 1 ELSE 0

\* C39, amended: an instance never has more than one auxiliary container;
\* the number of containers present equals the number of mounted
\* direct-mode instances whose host sits in a shadow root whose host has a
\* parent; the instance refers to its container exactly while the
\* container is attached; the unmount hook detaches it, and from then on no
\* step, those of the in-flight render included, attaches it or makes
\* another.
C39_ContainersNeverLeak ==
  /\ [](ContainersPresent =
          IF MountedNestedDirect /\ HasOuterParent(siblings) THEN 1 ELSE 0)
  /\ [](external.state = "attached" <=> ContainersPresent = 1)
  /\ [](targetRef <=> external.state = "attached")
  /\ [](life = "unmounted" => external.state \in {"none", "detached"})
  /\ [][external.state # "none" => external'.state # "none"]_vars
  /\ [][external.state = "detached" =>
          external'.state = "detached" /\ ContainersPresent' = 0]_vars
  /\ [][life = "unmounted" /\ render' # render =>
          /\ external'.state = external.state
          /\ siblings' = siblings
          /\ targetRef' = targetRef]_vars

\* the instance has been unmounted with its render in flight: the container
\* is detached, the parent's children are as before the mount, and the
\* render's next step is due
C39_Witness ==
  /\ life = "unmounted"
  /\ external.state = "detached"
  /\ siblings = <<"prev", OuterHost>>
  /\ ~targetRef
  /\ render.pc = "sequential"
  /\ render.waits = "resolved"
  /\ render.target = "external"
  /\ Len(render.handed) = 1

(***************************************************************************)
(* Overtaking specification: renderDirectly, an export of the library,     *)
(* called on one target element, the second time at any point of the first *)
(* call's run.  hostChildren holds the children of the target, render the  *)
(* call made last and earlier the call it has overtaken; html is the       *)
(* markup of the call made last.                                           *)
(***************************************************************************)
MaxCallNodes == 2

CallPool ==
  { ParsedScript({}, CodeX),
    ParsedScript({<<"src", SrcA>>}, <<>>),
    ParsedScript({<<"src", SrcA>>, <<"async", <<>>>>}, <<>>),
    ParsedScript({<<"defer", <<>>>>}, CodeX),
    Element(<<"d", "i", "v">>) }

CallMarkups == UNION {[1..n -> CallPool] : n \in 0..MaxCallNodes}

\* renderDirectly(target, markup) has run up to its first suspension point,
\* with result r; the call made before it goes on as the earlier one
CallStarted(markup, r) ==
  /\ html' = markup
  /\ hostChildren' = r.run.root
  /\ earlier' = [pc |-> render.pc, target |-> render.target,
                 metas |-> render.metas, k |-> render.k,
                 waits |-> render.waits, pending |-> render.pending,
                 handed |-> render.handed, since |-> Len(render.handed)]
  /\ render' = [pc |-> r.run.pc, target |-> "host", metas |-> r.metas,
                k |-> r.run.k, waits |-> r.run.waits,
                pending |-> r.run.pending, handed |-> r.run.handed]
  /\ uids' = r.uids
  /\ execLog' = execLog \o r.run.log
  /\ calls' = [calls EXCEPT !.direct = @ + 1, !.extract = @ + 1,
                            !.insert = @ + Len(r.run.handed)]

\* renderDirectly(target, markup) called by the library's user, no call
\* having been overtaken yet
CallRenderDirectly ==
  /\ earlier.pc = "idle"
  /\ \E markup \in CallMarkups :
       \E r \in {renderDirectly(hostChildren, markup, uids, emptySrc)} :
         CallStarted(markup, r)
  /\ UNCHANGED <<isShadow, hostRef, nested, canAttach, emptySrc, props,
                 shadow, external, targetRef, siblings, fonts, life, console,
                 clearRun, rt, roots, renders, scan>>

\* the earlier call has run from one suspension point to the next, with
\* result run
EarlierContinued(run) ==
  /\ hostChildren' = run.root
  /\ earlier' = [earlier EXCEPT !.pc = run.pc, !.k = run.k,
                                !.waits = run.waits,
                                !.pending = @ \cup run.pending,
                                !.handed = @ \o run.handed]
  /\ execLog' = execLog \o run.log
  /\ calls' = [calls EXCEPT !.insert = @ + Len(run.handed)]
  /\ UNCHANGED <<config, shadow, external, targetRef, siblings, fonts, life,
                 render, uids, console, clearRun, rt, roots, renders, scan>>

EarlierContinue ==
  \E run \in {Advance(earlier.pc, earlier.k, hostChildren, earlier.metas)} :
    EarlierContinued(run)

\* the promise the earlier call awaits has resolved: its loop goes on
EarlierResume ==
  /\ earlier.pc \in {"sequential", "deferred"}
  /\ earlier.waits = "resolved"
  /\ EarlierContinue

\* the nextTick() of the earlier call has resolved
EarlierFlush ==
  /\ earlier.pc = "flush"
  /\ EarlierContinue

OvertakeInit ==
  /\ html = <<>>
  /\ isShadow = FALSE
  /\ hostRef = TRUE
  /\ nested = FALSE
  /\ canAttach = TRUE
  /\ emptySrc = FALSE
  /\ props = [html |-> html, isShadow |-> isShadow]
  /\ life = "created"
  /\ hostChildren = <<>>
  /\ shadow = [attached |-> FALSE, children |-> <<>>]
  /\ external = [state |-> "none", children |-> <<>>]
  /\ targetRef = FALSE
  /\ siblings = <<>>
  /\ render = NoRender
  /\ earlier = NoEarlier
  /\ uids = 0
  /\ fontStyle = NoFontStyle
  /\ fontRules = <<>>
  /\ execLog = <<>>
  /\ calls = NoCalls
  /\ console = {}
  /\ clearRun = 0
  /\ rt = NoRoundTrip
  /\ roots = <<>>
  /\ renders = <<>>
  /\ scan = NoScan

OvertakeNext ==
  CallRenderDirectly \/ Resume \/ Flush \/ EarlierResume \/ EarlierFlush

SpecOvertake == OvertakeInit /\ [][OvertakeNext]_vars

\* a second call has been made
Overtaken == earlier.pc # "idle"

\* the record made for the script at position j of the last call's markup
RecordAt(j) ==
  render.metas[Cardinality({i \in 1..j : html[i].kind = "script"})]

\* node is what the last call has at position j of its markup: the node
\* itself, or for a script its marker or the element made from its record
IsOfLastCall(node, j) ==
  IF html[j].kind = "script"
    THEN \/ node = Placeholder(RecordAt(j).id)
         \/ node = createExecutableScript(RecordAt(j))
    ELSE node = html[j]

\* C38: once a second renderDirectly call has started on the target of a
\* call that may still be running, the target holds the later call's
\* content alone: the call's first step leaves in the target what it would
\* leave in an empty one, no marker of a record of the earlier call is under
\* the target, every node of the target is the node the later call's markup
\* has at that position (for a script, its marker or its live element), and
\* every step the earlier call takes from then on, however the steps of the
\* two calls interleave, leaves the target and the log of insertions as
\* they are.
C38_LaterCallOwnsTarget ==
  /\ [][calls'.direct > calls.direct =>
          hostChildren' = renderDirectly(<<>>, html', uids, emptySrc).run.root]_vars
  /\ [](Overtaken =>
          /\ \A i \in 1..Len(earlier.metas) :
               ~MarkerUnder(hostChildren, earlier.metas[i].id)
          /\ Len(hostChildren) = Len(html)
          /\ \A j \in 1..Len(hostChildren) : IsOfLastCall(hostChildren[j], j))
  /\ [][Overtaken /\ earlier' # earlier =>
          hostChildren' = hostChildren /\ execLog' = execLog]_vars
  /\ [][Overtaken =>
          \A n \in (Len(execLog) + 1)..Len(execLog') :
            \E i \in 1..Len(render'.metas) : render'.metas[i].id = execLog'[n]]_vars

\* the first call, of a script and a deferred script, was overtaken while it
\* awaited the script's insertion and has since handed both records to
\* insertScriptAtPlaceholder and returned; the second call has returned too,
\* and the target holds its two markers
C38_Witness ==
  /\ earlier.pc = "done"
  /\ earlier.since = 1
  /\ Len(earlier.handed) = 2
  /\ render.pc = "done"
  /\ Len(render.handed) = 2
  /\ Len(hostChildren) = 2
  /\ \A j \in 1..2 : hostChildren[j] = Placeholder(render.metas[j].id)

====
